---------------------------- MODULE Spec2Model ----------------------------
(***************************************************************************)
(* A model of the OPNsense OpenAPI tooling (package opnsense_api):         *)
(*   - parser/response_analyzer.py  ResponseAnalyzer                       *)
(*   - parser/model_parser.py       ModelParser                            *)
(*   - generator/openapi_generator.py  OpenApiGenerator                    *)
(*                                                                         *)
(* Python values are modelled as follows.  A dict is a function with a     *)
(* set of strings as domain (a record); the empty dict is EmptyDict.  A    *)
(* list is a sequence.  None is the record None.  A str is a string;      *)
(* lower(), "in", endswith(), replace(), strip(), int() and float() are   *)
(* computed character by character.                                       *)
(***************************************************************************)
EXTENDS Integers, Sequences, FiniteSets, TLC

VARIABLES
    \* ResponseAnalyzer._merge_schemas: argument, result, position
    schemas, merged, merge_pc,
    \* ResponseAnalyzer._analyze_returns: method body, file (method name ->
    \* body), result, position
    method_body, file_content, inferred, an_pc,
    \* ModelParser._convert_default_value: arguments, result, position
    default_str, json_type, converted, conv_pc,
    \* ModelParser.to_json_schema: model.fields, result, position
    model_fields, json_schema, schema_pc,
    \* OpenApiGenerator.generate: arguments, self.spec, the files of
    \* output_dir, position
    controllers, version, models_dir, spec, output_files, gen_pc,
    \* the controllers of the generate calls that follow on the same
    \* generator, the documents json.dump wrote so far with the controllers
    \* they were generated from
    later_calls, written,
    \* specs.py: the versions with a file in the specs directory, the
    \* function called, its argument, its result, position
    specs_dir, specs_call, requested, spec_file, specs_pc,
    \* APIWrapper: self.api_spec, self._operation_cache, the call and its
    \* arguments, the url built, the requests session.request was called
    \* with, the response, the result, position
    self_api_spec, _operation_cache, wrapper_call, request_url, http_requests,
    resp, wrapper_result, wrapper_pc,
    \* OPNsenseClient.get and post: the call, the response, the result,
    \* position
    client_call, client_response, client_result, client_pc,
    \* SourceDownloader.download: the directories below self.cache_dir, the
    \* tags of the repository, the arguments, the tags git clone was run
    \* with, the result, position
    cache_dir, repository, download_call, clones, download_result, download_pc,
    \* ControllerParser._guess_http_method: arguments, result, position
    guess_name, guess_parameters, guessed, guess_pc,
    \* infer_response_schema step by step: the file, the running
    \* _analyze_returns calls (innermost last), the variable a running
    \* _trace_variable call looks up, the assignments the _trace_variable
    \* calls of the current return found, the result, position
    infer_file, call_stack, trace_var, trace_stack, infer_result, infer_pc,
    \* ModelParser._parse_field and to_json_schema on the field: the XML
    \* element, the ModelField, the schema, position
    element, parsed_field, field_schema, field_pc,
    \* OpenApiGenerator._parse_model_nodes on one OptionField element:
    \* self.models_dir, the element, the property built, position
    enum_dir, option_elem, option_prop, enum_pc,
    \* SpecValidator.validate_endpoints: the package of the validator, the
    \* path items of self.spec in their order, the argument, the position in
    \* the loop, count, the requests sent with what the server answered, the
    \* results yielded, position
    validator_package, crawl_paths, max_endpoints, path_index,
    endpoint_count, crawl_requests, crawl_results, crawl_pc,
    \* cli.py download and generate: the command, the version argument, the
    \* models directory beside the controllers, what downloader.download
    \* returned or raised, the controllers parsed, the file generate wrote,
    \* the exit code of the process (-1 while it runs), position
    cli_command, cli_version, cli_models_dir, controllers_path,
    cli_controllers, output_file, exit_code, cli_pc

merge_vars == <<schemas, merged, merge_pc>>

analyze_vars == <<method_body, file_content, inferred, an_pc>>

convert_vars == <<default_str, json_type, converted, conv_pc>>

schema_vars == <<model_fields, json_schema, schema_pc>>

gen_vars ==
    <<controllers, version, models_dir, spec, output_files, gen_pc, later_calls,
      written>>

specs_vars == <<specs_dir, specs_call, requested, spec_file, specs_pc>>

parser_vars == <<merge_vars, analyze_vars, convert_vars, schema_vars>>

wrapper_vars ==
    <<self_api_spec, _operation_cache, wrapper_call, request_url, http_requests,
      resp, wrapper_result, wrapper_pc>>

client_vars == <<client_call, client_response, client_result, client_pc>>

download_vars ==
    <<cache_dir, repository, download_call, clones, download_result, download_pc>>

guess_vars == <<guess_name, guess_parameters, guessed, guess_pc>>

infer_vars == <<infer_file, call_stack, trace_var, trace_stack, infer_result,
    infer_pc>>

field_vars == <<element, parsed_field, field_schema, field_pc>>

enum_vars == <<enum_dir, option_elem, option_prop, enum_pc>>

crawl_vars == <<validator_package, crawl_paths, max_endpoints, path_index,
    endpoint_count, crawl_requests, crawl_results, crawl_pc>>

cli_vars == <<cli_command, cli_version, cli_models_dir, controllers_path,
    cli_controllers, output_file, exit_code, cli_pc>>

\* the variables of the calls modelled step by step
late_vars == <<infer_vars, field_vars, enum_vars, crawl_vars, cli_vars>>

\* the variables of the tools around the parser and the generator
tool_vars ==
    <<specs_vars, wrapper_vars, client_vars, download_vars, guess_vars, late_vars>>

\* what a call into one of the tools leaves alone
not_specs_vars ==
    <<parser_vars, gen_vars, wrapper_vars, client_vars, download_vars, guess_vars,
      late_vars>>

not_wrapper_vars ==
    <<parser_vars, gen_vars, specs_vars, client_vars, download_vars, guess_vars,
      late_vars>>

not_client_vars ==
    <<parser_vars, gen_vars, specs_vars, wrapper_vars, download_vars, guess_vars,
      late_vars>>

not_download_vars ==
    <<parser_vars, gen_vars, specs_vars, wrapper_vars, client_vars, guess_vars,
      late_vars>>

not_guess_vars ==
    <<parser_vars, gen_vars, specs_vars, wrapper_vars, client_vars, download_vars,
      late_vars>>

not_infer_vars == <<parser_vars, gen_vars, specs_vars, wrapper_vars,
    client_vars, download_vars, guess_vars, field_vars, enum_vars,
    crawl_vars, cli_vars>>

not_field_vars == <<parser_vars, gen_vars, specs_vars, wrapper_vars,
    client_vars, download_vars, guess_vars, infer_vars, enum_vars,
    crawl_vars, cli_vars>>

not_enum_vars == <<parser_vars, gen_vars, specs_vars, wrapper_vars,
    client_vars, download_vars, guess_vars, infer_vars, field_vars,
    crawl_vars, cli_vars>>

not_crawl_vars == <<parser_vars, gen_vars, specs_vars, wrapper_vars,
    client_vars, download_vars, guess_vars, infer_vars, field_vars,
    enum_vars, cli_vars>>

not_cli_vars == <<parser_vars, gen_vars, specs_vars, wrapper_vars,
    client_vars, download_vars, guess_vars, infer_vars, field_vars,
    enum_vars, crawl_vars>>

vars == <<parser_vars, gen_vars, tool_vars>>

---------------------------------------------------------------------------
(* Python helpers *)

\* Python's None
None == [py |-> "None"]

\* the empty dict {}
EmptyDict == [k \in {} |-> None]

\* Python's True where a dict slot holds either True or a dict
\* ("additionalProperties": True)
True == [py |-> "True"]

\* d.get(k, dflt)
Get(d, k, dflt) == IF k \in DOMAIN d THEN d[k] ELSE dflt

\* set(list)
SetOf(seq) == {seq[i] : i \in DOMAIN seq}

\* The property names that occur in the modelled schemas, in Python's string
\* order (code point order), used to compute sorted(set).
NameOrder ==
    <<"0", "1", "caption_restart", "caption_start", "caption_stop",
      "changed", "current", "data", "deleted", "disabled", "failed",
      "message", "not_found", "ok", "response", "result", "rowCount",
      "rows", "running", "saved", "status", "stopped", "total", "unknown",
      "uuid", "validations", "widget">>

\* sorted(S) for a set S of names
Sorted(S) == SelectSeq(NameOrder, LAMBDA n : n \in S)

---------------------------------------------------------------------------
(* ResponseAnalyzer._merge_property_schemas and _merge_schemas *)

_merge_property_schemas(schema1, schema2) ==
    IF Get(schema1, "type", None) = Get(schema2, "type", None)
    THEN LET enum1 == SetOf(Get(schema1, "enum", <<>>))
             enum2 == SetOf(Get(schema2, "enum", <<>>))
             withEnum ==
                 IF enum1 # {} \/ enum2 # {}
                 THEN [enum |-> Sorted(enum1 \cup enum2)] @@ schema1
                 ELSE schema1
         IN  IF "description" \notin DOMAIN withEnum
                /\ "description" \in DOMAIN schema2
             THEN [description |-> schema2.description] @@ withEnum
             ELSE withEnum
    ELSE [type |-> "string"]

\* One iteration of "for schema in schemas" (lines 779-799) on the loop
\* state acc = [properties, required]; required is the Python set.
MergeRequiredNext(merged_required, required) ==
    IF merged_required = {} THEN required
    ELSE merged_required \cap required

MergeStep(acc, schema) ==
    IF Get(schema, "type", None) # "object" THEN acc
    ELSE LET props == Get(schema, "properties", EmptyDict)
             mp    == acc.properties
             newProps ==
                 [n \in DOMAIN mp \cup DOMAIN props |->
                     IF n \in DOMAIN props
                     THEN IF n \in DOMAIN mp
                          THEN _merge_property_schemas(mp[n], props[n])
                          ELSE props[n]
                     ELSE mp[n]]
             required == SetOf(Get(schema, "required", <<>>))
         IN  [properties |-> newProps,
              required   |-> MergeRequiredNext(acc.required, required)]

RECURSIVE MergeLoop(_, _, _)
MergeLoop(list, i, acc) ==
    IF i > Len(list) THEN acc
    ELSE MergeLoop(list, i + 1, MergeStep(acc, list[i]))

_merge_schemas(list) ==
    IF Len(list) = 0 THEN [type |-> "object"]
    ELSE IF Len(list) = 1 THEN list[1]
    ELSE LET acc == MergeLoop(list, 1,
                        [properties |-> EmptyDict, required |-> {}])
             result == [type |-> "object", properties |-> acc.properties]
         IN  IF acc.required # {}
             THEN [required |-> Sorted(acc.required)] @@ result
             ELSE result

---------------------------------------------------------------------------
(* Inputs of _merge_schemas: schemas of the shapes _analyze_returns builds  *)

\* the largest number of return branches merged
MaxBranches == 3

\* {"type": "object", "properties": {p: {"type": "string"}}, "required": R}
\* ("required" left out when R is empty, as the analyzer's rules do)
ObjSchema(P, R) ==
    LET base == [type |-> "object",
                 properties |-> [n \in P |-> [type |-> "string"]]]
    IN  IF R = {} THEN base ELSE [required |-> Sorted(R)] @@ base

\* _match_service_action's two results (lines 395-405, 413-423)
ServiceStatusSchema ==
    [type |-> "object",
     properties |-> [status |-> [type |-> "string",
                                 enum |-> <<"ok", "failed">>,
                                 description |-> "Service action status"]],
     required |-> <<"status">>]

ServiceResultSchema ==
    [type |-> "object",
     properties |-> [result |-> [type |-> "string",
                                 enum |-> <<"ok", "failed">>,
                                 description |-> "Service action result"]],
     required |-> <<"result">>]

\* _detect_list_export_pattern's results (lines 442-446, 465-469)
ArrayOfItemsSchema ==
    [type |-> "array", items |-> [type |-> "object"],
     description |-> "Array of items"]

DynamicKeysSchema ==
    [type |-> "object", additionalProperties |-> True,
     description |-> "Object with dynamic keys"]

MergeNames == {"status", "result"}

BranchSchemas ==
    UNION {{ObjSchema(P, R) : R \in SUBSET P} : P \in SUBSET MergeNames}
    \cup {ServiceStatusSchema, ServiceResultSchema,
          ArrayOfItemsSchema, DynamicKeysSchema}

SeqsUpTo(S, n) == UNION {[1..k -> S] : k \in 0..n}

---------------------------------------------------------------------------
(* ResponseAnalyzer.BASE_METHOD_SCHEMAS (lines 12-165) *)

PaginationSchema ==
    [type |-> "object",
     properties |->
        [rows |-> [type |-> "array", items |-> [type |-> "object"],
                   description |-> "Array of matching records"],
         rowCount |-> [type |-> "integer",
                       description |-> "Number of rows in current page"],
         total |-> [type |-> "integer",
                    description |-> "Total number of matching records"],
         current |-> [type |-> "integer",
                      description |-> "Current page number"]],
     required |-> <<"rows", "rowCount", "total", "current">>]

ValidationsProperty ==
    [type |-> "object", description |-> "Validation errors if any",
     additionalProperties |-> [type |-> "string"]]

ServiceResponseSchema(text) ==
    [type |-> "object",
     properties |-> [response |-> [type |-> "string", description |-> text]],
     required |-> <<"response">>]

BASE_METHOD_SCHEMAS ==
    [searchBase |-> PaginationSchema,
     searchRecordsetBase |-> PaginationSchema,
     getBase |->
        [type |-> "object",
         description |-> "Returns model data under a key matching the model name",
         additionalProperties |-> True],
     setBase |->
        [type |-> "object",
         properties |->
            [result |-> [type |-> "string", enum |-> <<"saved", "failed">>,
                         description |-> "Operation result"],
             validations |-> ValidationsProperty],
         required |-> <<"result">>],
     addBase |->
        [type |-> "object",
         properties |->
            [result |-> [type |-> "string", enum |-> <<"saved", "failed">>,
                         description |-> "Operation result"],
             uuid |-> [type |-> "string",
                       description |-> "UUID of created item"],
             validations |-> ValidationsProperty],
         required |-> <<"result">>],
     delBase |->
        [type |-> "object",
         properties |->
            [result |-> [type |-> "string",
                         enum |-> <<"deleted", "failed", "not_found">>,
                         description |-> "Deletion result"]],
         required |-> <<"result">>],
     toggleBase |->
        [type |-> "object",
         properties |->
            [result |-> [type |-> "string", enum |-> <<"saved", "failed">>,
                         description |-> "Toggle operation result"],
             changed |-> [type |-> "boolean",
                          description |-> "Whether state was changed"]],
         required |-> <<"result">>],
     startAction |-> ServiceResponseSchema("Service start response output"),
     stopAction |-> ServiceResponseSchema("Service stop response output"),
     restartAction |-> ServiceResponseSchema("Service restart response output"),
     reconfigureAction |->
        [type |-> "object",
         properties |->
            [status |-> [type |-> "string", enum |-> <<"ok", "failed">>,
                         description |-> "Reconfigure operation status"]],
         required |-> <<"status">>],
     statusAction |->
        [type |-> "object",
         properties |->
            [status |-> [type |-> "string",
                         enum |-> <<"running", "stopped", "disabled", "unknown">>,
                         description |-> "Service status"],
             widget |->
                [type |-> "object",
                 properties |-> [caption_restart |-> [type |-> "string"],
                                 caption_start |-> [type |-> "string"],
                                 caption_stop |-> [type |-> "string"]],
                 description |-> "Widget caption translations"]],
         required |-> <<"status">>]]

---------------------------------------------------------------------------
(* PHP text of a method body, as the analyzer's patterns see it.           *)
(*                                                                         *)
(* An expression is a record [kind, name, pairs]:                          *)
(*   var         $name                                                     *)
(*   base        $this->name("a")      a base-method call, no blanks       *)
(*   call        $this->name()         a call of a method of the file      *)
(*   array       ['k' => v, ...]       pairs maps each key to its value    *)
(*   empty       []                                                        *)
(*   json_decode json_decode($raw, true)                                   *)
(*   junk        = null) { log()       what "[^;]+" captures behind the    *)
(*                                     first "=" of a comparison           *)
(* A value of an array literal is [lit, text]: a quoted string 'text', an  *)
(* integer, a boolean, a nested [..] or a variable.                        *)
(*                                                                         *)
(* A statement is a record [op, lhs, rhs]:                                 *)
(*   assign   lhs = rhs;                                                   *)
(*   compare  if (lhs == null) { log(); }                                  *)
(*   return   return rhs;                                                  *)
(*   backend  (new Backend())->configdRun("x");                            *)
(*   build    lhs['k'] = 1;                                                *)
(* A method body is a sequence of statements; a file maps the names of     *)
(* its methods to their bodies.                                            *)

NoPairs == [k \in {} |-> None]

Var(n) == [kind |-> "var", name |-> n, pairs |-> NoPairs]

BaseCall(m) == [kind |-> "base", name |-> m, pairs |-> NoPairs]

ThisCall(f) == [kind |-> "call", name |-> f, pairs |-> NoPairs]

ArrayLit(p) == [kind |-> "array", name |-> "[", pairs |-> p]

EmptyArray == [kind |-> "empty", name |-> "[]", pairs |-> NoPairs]

JsonDecode == [kind |-> "json_decode", name |-> "json_decode", pairs |-> NoPairs]

Junk == [kind |-> "junk", name |-> "=", pairs |-> NoPairs]

StrLit(t) == [lit |-> "string", text |-> t]

IntLit == [lit |-> "integer", text |-> "1"]

BoolLit == [lit |-> "boolean", text |-> "true"]

NestedLit == [lit |-> "array", text |-> "[]"]

VarLit == [lit |-> "var", text |-> "$x"]

Assign(l, r) == [op |-> "assign", lhs |-> l, rhs |-> r]

Compare(l) == [op |-> "compare", lhs |-> l, rhs |-> Junk]

Return(e) == [op |-> "return", lhs |-> Junk, rhs |-> e]

Backend == [op |-> "backend", lhs |-> Junk, rhs |-> Junk]

Build(v) == [op |-> "build", lhs |-> v, rhs |-> Junk]

\* return_expr.startswith("$")
StartsWithDollar(e) == e.kind \in {"var", "base", "call"}

\* re.match(r"(\$\w+)", expr): the leading variable of the text
LeadingVar(e) == IF e.kind = "var" THEN e ELSE Var("$this")

\* '"w"' in return_expr or "'w'" in return_expr: a quoted word of the text
HasQuoted(e, w) ==
    /\ e.kind = "array"
    /\ \/ w \in DOMAIN e.pairs
       \/ \E k \in DOMAIN e.pairs :
            e.pairs[k].lit = "string" /\ e.pairs[k].text = w

---------------------------------------------------------------------------
(* ResponseAnalyzer._trace_variable (lines 838-880) *)

\* max_depth of _trace_variable
TraceMaxDepth == 5

\* re.findall(rf"{var}\s*=\s*([^;]+);", method_body): the pattern is not
\* anchored behind the "=", so it matches "var = rhs;" and "var == rhs ...;"
TraceMatches(body, var_name) ==
    SelectSeq(body, LAMBDA s : s.op \in {"assign", "compare"} /\ s.lhs = var_name)

\* the comparison with max_depth taken strict
max_depth_exceeded(depth) == depth > TraceMaxDepth

\* "if depth >= max_depth" (line 851)
max_depth_reached(depth) == depth >= TraceMaxDepth

RECURSIVE _trace_variable(_, _, _)
_trace_variable(body, var_name, depth) ==
    IF max_depth_reached(depth) THEN None
    ELSE LET matches == TraceMatches(body, var_name)
         IN  IF Len(matches) = 0 THEN None
             ELSE LET assignment == matches[Len(matches)].rhs
                  IN  IF StartsWithDollar(assignment)
                      THEN LET traced == _trace_variable(body,
                                            LeadingVar(assignment), depth + 1)
                           IN  IF traced # None THEN traced ELSE assignment
                      ELSE assignment

---------------------------------------------------------------------------
(* The inference rules of _analyze_returns (lines 321-758) *)

\* BASE_METHOD_SCHEMAS.items() order is irrelevant here: an expression of
\* the model holds at most one "$this->name(" text.
_match_base_method(return_expr) ==
    IF return_expr.kind = "base" /\ return_expr.name \in DOMAIN BASE_METHOD_SCHEMAS
    THEN BASE_METHOD_SCHEMAS[return_expr.name]
    ELSE None

\* the body of the method, or the empty body when the file has no such
\* method (the callers test "if not body", which None and "" both pass)
_extract_method_body(file, method_name) ==
    IF method_name \in DOMAIN file THEN file[method_name] ELSE <<>>

_match_service_action(body, return_expr) ==
    LET has_backend_call == \E i \in DOMAIN body : body[i].op = "backend"
        okOrFailed == HasQuoted(return_expr, "ok") \/ HasQuoted(return_expr, "failed")
    IN  IF ~has_backend_call THEN None
        ELSE IF HasQuoted(return_expr, "status") /\ okOrFailed
        THEN ServiceStatusSchema
        ELSE IF HasQuoted(return_expr, "result") /\ okOrFailed
        THEN ServiceResultSchema
        ELSE None

\* rf"{var}\[\s*[^\]]*\s*\]\s*=" or rf"array_push\s*\(\s*{var}"
IsBuilt(body, v) == \E i \in DOMAIN body : body[i].op = "build" /\ body[i].lhs = v

\* rf"{var}\s*=\s*\[\s*\];"
IsInitializedEmpty(body, v) ==
    \E i \in DOMAIN body :
        body[i].op = "assign" /\ body[i].lhs = v /\ body[i].rhs = EmptyArray

RowsSchema ==
    [type |-> "object",
     properties |-> [rows |-> [type |-> "array", items |-> [type |-> "object"],
                               description |-> "Array of items"]]]

_detect_list_export_pattern(body, return_expr) ==
    IF return_expr.kind = "json_decode" THEN ArrayOfItemsSchema
    ELSE IF /\ return_expr.kind = "empty"
            /\ \E i \in DOMAIN body :
                 /\ body[i].op = "assign" /\ body[i].rhs = EmptyArray
                 /\ IsBuilt(body, body[i].lhs)
    THEN DynamicKeysSchema
    ELSE IF /\ StartsWithDollar(return_expr)
            /\ \E i \in DOMAIN body :
                 /\ body[i].op = "assign"
                 /\ body[i].lhs = LeadingVar(return_expr)
                 /\ body[i].rhs = JsonDecode
    THEN ArrayOfItemsSchema
    ELSE IF /\ StartsWithDollar(return_expr)
            /\ IsInitializedEmpty(body, LeadingVar(return_expr))
            /\ IsBuilt(body, LeadingVar(return_expr))
    THEN DynamicKeysSchema
    ELSE IF HasQuoted(return_expr, "rows") THEN RowsSchema
    ELSE None

PlainArraySchema ==
    [type |-> "array", items |-> [type |-> "string"],
     description |-> "List of items"]

\* the patterns "$v = [];", "$v[] = ..." and "array_push($v": of the
\* statements of the model only the first occurs ("build" has a key)
_match_plain_array(body, return_expr) ==
    IF ~StartsWithDollar(return_expr) THEN None
    ELSE IF IsInitializedEmpty(body, LeadingVar(return_expr))
    THEN PlainArraySchema
    ELSE None

_infer_value_type(value) ==
    CASE value.lit = "boolean" -> [type |-> "boolean"]
      [] value.lit = "integer" -> [type |-> "integer"]
      [] value.lit = "array" -> [type |-> "array", items |-> [type |-> "object"]]
      [] OTHER -> [type |-> "string"]

_parse_array_literal(return_expr) ==
    IF return_expr.kind = "array" /\ DOMAIN return_expr.pairs # {}
    THEN [type |-> "object",
          properties |-> [k \in DOMAIN return_expr.pairs |->
                             _infer_value_type(return_expr.pairs[k])]]
    ELSE None

_match_simple_patterns(return_expr) ==
    IF HasQuoted(return_expr, "status")
    THEN [type |-> "object",
          properties |-> [status |-> [type |-> "string",
                                      description |-> "Operation status"]]]
    ELSE IF HasQuoted(return_expr, "result")
    THEN [type |-> "object",
          properties |-> [result |-> [type |-> "string",
                                      description |-> "Operation result"]]]
    ELSE None

---------------------------------------------------------------------------
(* ResponseAnalyzer._analyze_returns and _resolve_method_call *)

\* max_depth of _analyze_returns
MethodMaxDepth == 3

\* re.findall(r"return\s+([^;]+);", method_body)
ReturnsOf(body) ==
    LET rs == SelectSeq(body, LAMBDA s : s.op = "return")
    IN  [i \in DOMAIN rs |-> rs[i].rhs]

\* "if return_expr.startswith("$"): ... traced_expr" (lines 266-271);
\* split()[0] is the whole text of a var, base or call expression
TracedExpr(body, original) ==
    LET traced == IF StartsWithDollar(original)
                  THEN _trace_variable(body, original, 0)
                  ELSE None
    IN  IF traced # None THEN traced ELSE original

RECURSIVE _analyze_returns(_, _, _)
RECURSIVE AnalyzeLoop(_, _, _, _, _, _)
RECURSIVE _resolve_method_call(_, _, _)

\* the rules behind the base-method check, in the order of lines 278-313
ReturnSchema(body, file, depth, original, return_expr) ==
    LET resolved == IF depth < MethodMaxDepth
                    THEN _resolve_method_call(return_expr, file, depth)
                    ELSE None
        service  == _match_service_action(body, return_expr)
        listing  == _detect_list_export_pattern(body, return_expr)
        plain    == _match_plain_array(body, original)
        literal  == _parse_array_literal(return_expr)
    IN  IF resolved # None THEN resolved
        ELSE IF service # None THEN service
        ELSE IF listing # None THEN listing
        ELSE IF plain # None THEN plain
        ELSE IF literal # None THEN literal
        ELSE _match_simple_patterns(return_expr)

\* the base-method check of one return (lines 273-276)
BaseSchemaOfReturn(return_expr) == _match_base_method(return_expr)

AnalyzeLoop(returns, i, acc, body, file, depth) ==
    IF i > Len(returns)
    THEN IF Len(acc) > 0 THEN _merge_schemas(acc) ELSE None
    ELSE LET original == returns[i]
             return_expr == TracedExpr(body, original)
             base == BaseSchemaOfReturn(return_expr)
         IN  IF base # None THEN base
             ELSE LET schema == ReturnSchema(body, file, depth,
                                             original, return_expr)
                  IN  AnalyzeLoop(returns, i + 1,
                          IF schema # None THEN Append(acc, schema) ELSE acc,
                          body, file, depth)

_analyze_returns(body, file, depth) ==
    LET returns == ReturnsOf(body)
    IN  IF Len(returns) = 0 THEN None
        ELSE AnalyzeLoop(returns, 1, <<>>, body, file, depth)

_resolve_method_call(return_expr, file, depth) ==
    IF return_expr.kind \notin {"call", "base"} THEN None
    ELSE LET called_method_body == _extract_method_body(file, return_expr.name)
         IN  IF called_method_body = <<>> THEN None
             ELSE _analyze_returns(called_method_body, file, depth + 1)

---------------------------------------------------------------------------
(* Inputs of _analyze_returns *)

\* the largest number of statements of the analysed method body
MaxStmts == 3

StatusOkLiteral == ArrayLit([status |-> StrLit("ok")])

ReturnExprs ==
    {Var("$r"), BaseCall("searchBase"), BaseCall("setBase"),
     ThisCall("helper"), StatusOkLiteral, EmptyArray}

Statements ==
    {Return(e) : e \in ReturnExprs}
    \cup {Assign(Var("$r"), e) :
            e \in {BaseCall("searchBase"), Var("$s"), EmptyArray, JsonDecode}}
    \cup {Assign(Var("$s"), Var("$r"))}
    \cup {Compare(Var("$r")), Compare(BaseCall("searchBase"))}
    \cup {Backend, Build(Var("$r"))}

\* bodies of the method "helper" of the file (<<>>: the file has none)
HelperBodies ==
    {<<>>,
     <<Return(BaseCall("setBase"))>>,
     <<Return(ThisCall("helper"))>>,
     <<Return(ArrayLit([result |-> StrLit("failed"), data |-> NestedLit]))>>}

FileOf(body, helper) ==
    IF helper = <<>> THEN [testAction |-> body]
    ELSE [testAction |-> body, helper |-> helper]

---------------------------------------------------------------------------
(* infer_response_schema, call by call.  A running _analyze_returns call   *)
(* is a frame: its method body, the index i of the return it is at, the    *)
(* list schemas it collected (acc), the return expression as written       *)
(* (original) and as traced (expr), and the place it is at:                *)
(*   next       at the head of "for return_expr in returns"                *)
(*   trace      inside _trace_variable (lines 267-271)                     *)
(*   base       before _match_base_method (line 274)                       *)
(*   resolve    before _resolve_method_call (line 279)                     *)
(*   resolving  inside _resolve_method_call, the called method running     *)
(*   rules      before _match_service_action (line 286)                    *)

Frame(body) ==
    [body |-> body, i |-> 1, acc |-> <<>>, original |-> Junk, expr |-> Junk,
     phase |-> "next"]

Last(seq) == seq[Len(seq)]

\* the frames left when the innermost call returns schema: the caller, in
\* _resolve_method_call, appends a schema and continues with the next
\* return (lines 281-283), or goes on to the other rules
AfterReturn(stack, schema) ==
    LET rest == SubSeq(stack, 1, Len(stack) - 1)
    IN  IF rest = <<>> THEN rest
        ELSE [rest EXCEPT ![Len(rest)] =
                IF schema # None
                THEN [@ EXCEPT !.acc = Append(@, schema), !.i = @ + 1,
                               !.phase = "next"]
                ELSE [@ EXCEPT !.phase = "rules"]]

\* the rules behind _resolve_method_call, in the order of lines 285-313
PatternSchema(body, original, return_expr) ==
    LET service  == _match_service_action(body, return_expr)
        listing  == _detect_list_export_pattern(body, return_expr)
        plain    == _match_plain_array(body, original)
        literal  == _parse_array_literal(return_expr)
    IN  IF service # None THEN service
        ELSE IF listing # None THEN listing
        ELSE IF plain # None THEN plain
        ELSE IF literal # None THEN literal
        ELSE _match_simple_patterns(return_expr)

---------------------------------------------------------------------------
(* Inputs of infer_response_schema: assignment chains, cyclic ones         *)
(* included, and methods that call themselves or each other                *)

ChainStatements ==
    {Return(e) : e \in {Var("$a"), ThisCall("helper"), StatusOkLiteral}}
    \cup {Assign(Var("$a"), e) : e \in {Var("$b"), Var("$a"), JsonDecode,
                                        StatusOkLiteral}}
    \cup {Assign(Var("$b"), Var("$a"))}

\* the methods of the file beside testAction
CalledMethods ==
    {EmptyDict,
     [helper |-> <<Return(ThisCall("helper"))>>],
     [helper |-> <<Return(ThisCall("other"))>>,
      other |-> <<Return(ThisCall("helper")), Return(ThisCall("testAction"))>>],
     [helper |-> <<Assign(Var("$a"), Var("$b")), Assign(Var("$b"), Var("$a")),
                   Return(Var("$a"))>>],
     [helper |-> <<Return(ArrayLit([result |-> StrLit("failed")]))>>],
     [helper |-> <<Return(BaseCall("setBase"))>>]}

InferFiles ==
    {[testAction |-> body] @@ called :
        body \in SeqsUpTo(ChainStatements, MaxStmts), called \in CalledMethods}

---------------------------------------------------------------------------
(* Python str operations on the texts the code inspects *)

Char(s, i) == SubSeq(s, i, i)

UpperLetters == "ABCDEFGHIJKLMNOPQRSTUVWXYZ"

LowerLetters == "abcdefghijklmnopqrstuvwxyz"

\* c.lower() for one character
LowerChar(c) ==
    IF \E i \in 1..Len(UpperLetters) : Char(UpperLetters, i) = c
    THEN Char(LowerLetters, CHOOSE i \in 1..Len(UpperLetters) : Char(UpperLetters, i) = c)
    ELSE c

\* c.upper() for one character
UpperChar(c) ==
    IF \E i \in 1..Len(LowerLetters) : Char(LowerLetters, i) = c
    THEN Char(UpperLetters, CHOOSE i \in 1..Len(LowerLetters) : Char(LowerLetters, i) = c)
    ELSE c

RECURSIVE Lower(_)
\* s.lower()
Lower(s) ==
    IF s = "" THEN "" ELSE LowerChar(Char(s, 1)) \o Lower(SubSeq(s, 2, Len(s)))

RECURSIVE Upper(_)
\* s.upper()
Upper(s) ==
    IF s = "" THEN "" ELSE UpperChar(Char(s, 1)) \o Upper(SubSeq(s, 2, Len(s)))

\* s.startswith(w)
StartsWith(s, w) == Len(w) <= Len(s) /\ SubSeq(s, 1, Len(w)) = w

\* s.endswith(w)
EndsWith(s, w) == Len(w) <= Len(s) /\ SubSeq(s, Len(s) - Len(w) + 1, Len(s)) = w

\* w in s
Contains(s, w) == \E i \in 1..(Len(s) - Len(w) + 1) : SubSeq(s, i, i + Len(w) - 1) = w

\* any(w in s for w in words)
ContainsAny(s, words) == \E w \in words : Contains(s, w)

RECURSIVE Replace(_, _, _)
\* s.replace(old, new) for a non-empty old: every occurrence, left to right
Replace(s, old, new) ==
    IF s = "" THEN ""
    ELSE IF StartsWith(s, old)
         THEN new \o Replace(SubSeq(s, Len(old) + 1, Len(s)), old, new)
         ELSE Char(s, 1) \o Replace(SubSeq(s, 2, Len(s)), old, new)

\* the characters str.strip() removes, as far as the modelled texts hold them
Whitespace == {" ", "\t", "\n", "\r"}

RECURSIVE LStrip(_)
LStrip(s) ==
    IF s # "" /\ Char(s, 1) \in Whitespace THEN LStrip(SubSeq(s, 2, Len(s))) ELSE s

RECURSIVE RStrip(_)
RStrip(s) ==
    IF s # "" /\ Char(s, Len(s)) \in Whitespace
    THEN RStrip(SubSeq(s, 1, Len(s) - 1)) ELSE s

\* s.strip()
Strip(s) == RStrip(LStrip(s))

\* {k: v}
Dict1(k, v) == [x \in {k} |-> v]

\* d[k] = v on a dict d
DictSet(d, k, v) == [x \in DOMAIN d \cup {k} |-> IF x = k THEN v ELSE d[x]]

(* Python values of mixed type (a converted default, the members of an    *)
(* enum list) carry their type: a str, an int, a bool or a float.  A      *)
(* float is sign * mantissa * 10^exp10, or inf / nan in special.          *)
PyStr(s) == [str |-> s]

PyInt(n) == [int |-> n]

PyBool(b) == [bool |-> b]

PyFloat(sign, mantissa, exp10, special) ==
    [float |-> [sign |-> sign, mantissa |-> mantissa, exp10 |-> exp10,
                special |-> special]]

\* a raised ValueError
ValueError == [raise |-> "ValueError"]

Raised(v) == "raise" \in DOMAIN v

---------------------------------------------------------------------------
(* Python's int(str) and float(str) *)

DigitChars == "0123456789"

IsDigit(c) == \E i \in 1..Len(DigitChars) : Char(DigitChars, i) = c

DigitVal(c) == (CHOOSE i \in 1..Len(DigitChars) : Char(DigitChars, i) = c) - 1

\* digits with single underscores between them: 1, 10, 1_0
IsDigitRun(s) ==
    /\ s # ""
    /\ IsDigit(Char(s, 1))
    /\ IsDigit(Char(s, Len(s)))
    /\ \A i \in 1..Len(s) : IsDigit(Char(s, i)) \/ Char(s, i) = "_"
    /\ \A i \in 1..(Len(s) - 1) : ~(Char(s, i) = "_" /\ Char(s, i + 1) = "_")

RECURSIVE DigitsValue(_, _)
\* the number a digit run denotes, continuing from acc
DigitsValue(s, acc) ==
    IF s = "" THEN acc
    ELSE IF Char(s, 1) = "_" THEN DigitsValue(SubSeq(s, 2, Len(s)), acc)
         ELSE DigitsValue(SubSeq(s, 2, Len(s)), acc * Len(DigitChars) + DigitVal(Char(s, 1)))

RECURSIVE CountDigits(_)
CountDigits(s) ==
    IF s = "" THEN 0
    ELSE (IF IsDigit(Char(s, 1)) THEN 1 ELSE 0) + CountDigits(SubSeq(s, 2, Len(s)))

HasSign(t) == t # "" /\ Char(t, 1) \in {"+", "-"}

SignOf(t) == IF t # "" /\ Char(t, 1) = "-" THEN -1 ELSE 1

Unsigned(t) == IF HasSign(t) THEN SubSeq(t, 2, Len(t)) ELSE t

\* the first position of one of the characters cs in s, 0 if there is none
FirstOf(s, cs) ==
    IF \E i \in 1..Len(s) : Char(s, i) \in cs
    THEN CHOOSE i \in 1..Len(s) :
            /\ Char(s, i) \in cs
            /\ \A j \in 1..(i - 1) : Char(s, j) \notin cs
    ELSE 0

\* int(s): the int, or ValueError raised
PyIntOf(s) ==
    LET t == Strip(s)
        body == Unsigned(t)
    IN  IF IsDigitRun(body) THEN PyInt(SignOf(t) * DigitsValue(body, 0))
        ELSE ValueError

\* float(s): the float, or ValueError raised
PyFloatOf(s) ==
    LET t == Strip(s)
        body == Unsigned(t)
        epos == FirstOf(body, {"e", "E"})
        mant == IF epos = 0 THEN body ELSE SubSeq(body, 1, epos - 1)
        expo == IF epos = 0 THEN "" ELSE SubSeq(body, epos + 1, Len(body))
        dot == FirstOf(mant, {"."})
        ip == IF dot = 0 THEN mant ELSE SubSeq(mant, 1, dot - 1)
        fp == IF dot = 0 THEN "" ELSE SubSeq(mant, dot + 1, Len(mant))
        mant_ok == /\ ip = "" \/ IsDigitRun(ip)
                   /\ fp = "" \/ IsDigitRun(fp)
                   /\ ~(ip = "" /\ fp = "")
        exp_ok == epos = 0 \/ IsDigitRun(Unsigned(expo))
        exp_val == IF epos = 0 THEN 0 ELSE SignOf(expo) * DigitsValue(Unsigned(expo), 0)
    IN  IF Lower(body) \in {"inf", "infinity"} THEN PyFloat(SignOf(t), 0, 0, "inf")
        ELSE IF Lower(body) = "nan" THEN PyFloat(SignOf(t), 0, 0, "nan")
        ELSE IF mant_ok /\ exp_ok
             THEN PyFloat(SignOf(t), DigitsValue(ip \o fp, 0),
                          exp_val - CountDigits(fp), "")
             ELSE ValueError

---------------------------------------------------------------------------
(* ModelParser (parser/model_parser.py) *)

\* FIELD_TYPE_MAP (lines 38-57)
FIELD_TYPE_MAP ==
    [BooleanField |-> "boolean", IntegerField |-> "integer",
     NumericField |-> "number", TextField |-> "string",
     DescriptionField |-> "string", EmailField |-> "string",
     HostnameField |-> "string", NetworkField |-> "string",
     PortField |-> "string", UrlField |-> "string", OptionField |-> "string",
     CSVListField |-> "string", InterfaceField |-> "string",
     ModelRelationField |-> "string", UniqueIdField |-> "string",
     CertificateField |-> "string", AuthGroupField |-> "string",
     AuthenticationServerField |-> "string"]

\* the conversion without the except clause: a ValueError reaches the caller
ExceptValueError_Uncaught(parsed, default_s) == parsed

\* the try / except ValueError of lines 255-258 and 260-263: the parsed
\* value, or the raw string when the conversion raised ValueError
ExceptValueError(parsed, default_s) ==
    IF parsed = ValueError THEN PyStr(default_s) ELSE parsed

\* _convert_default_value (lines 241-266)
_convert_default_value(default_s, type) ==
    IF type = "boolean"
    THEN PyBool(Lower(default_s) \in {"1", "y", "yes", "true"})
    ELSE IF type = "integer" THEN ExceptValueError(PyIntOf(default_s), default_s)
    ELSE IF type = "number" THEN ExceptValueError(PyFloatOf(default_s), default_s)
    ELSE PyStr(default_s)

\* ModelField(name, field_type, required, default, options, multiple):
\* default is None or a str; options is the list of the option keys in
\* dict order (to_json_schema does not read the option labels)
ModelField(name, field_type, required, default, options, multiple) ==
    [name |-> name, field_type |-> field_type, required |-> required,
     default |-> default, options |-> options, multiple |-> multiple]

\* lines 212-219: the enum list of a field with options
EnumValues(model_field) ==
    IF model_field.default # None
       /\ \A i \in DOMAIN model_field.options :
             model_field.options[i] # model_field.default
    THEN Append(model_field.options, model_field.default)
    ELSE model_field.options

\* lines 206-228: the property schema of one field
FieldProperty(model_field) ==
    LET type == Get(FIELD_TYPE_MAP, model_field.field_type, "string")
        prop == [type |-> type]
                @@ (IF model_field.options # <<>>
                    THEN [enum |-> EnumValues(model_field)] ELSE EmptyDict)
                @@ (IF model_field.default # None
                    THEN [default |->
                            _convert_default_value(model_field.default.str, type)]
                    ELSE EmptyDict)
    IN  IF model_field.multiple THEN [type |-> "array", items |-> prop] ELSE prop

RECURSIVE SchemaLoop(_, _, _, _)
\* "for model_field in model.fields[container]" (lines 205-233)
SchemaLoop(fields, i, properties, required) ==
    IF i > Len(fields)
    THEN [type |-> "object", properties |-> properties]
         @@ (IF required # <<>> THEN [required |-> required] ELSE EmptyDict)
    ELSE SchemaLoop(fields, i + 1,
                    DictSet(properties, fields[i].name, FieldProperty(fields[i])),
                    IF fields[i].required THEN Append(required, fields[i].name)
                    ELSE required)

\* to_json_schema(model, container) on model.fields (lines 189-239)
to_json_schema(fields, container) ==
    IF container \notin DOMAIN fields THEN [type |-> "object"]
    ELSE SchemaLoop(fields[container], 1, EmptyDict, <<>>)

---------------------------------------------------------------------------
(* ModelParser._parse_field (lines 134-171).  An XML field element is a    *)
(* record [tag, type, Required, Default, Multiple]: its tag, its type      *)
(* attribute and the text of three of its children, "" for a child that is *)
(* absent or has no text.                                                  *)

\* the keys of FIELD_TYPE_MAP in dict order (lines 39-56)
FieldTypeNames ==
    <<"BooleanField", "IntegerField", "NumericField", "TextField",
      "DescriptionField", "EmailField", "HostnameField", "NetworkField",
      "PortField", "UrlField", "OptionField", "CSVListField", "InterfaceField",
      "ModelRelationField", "UniqueIdField", "CertificateField",
      "AuthGroupField", "AuthenticationServerField">>

RECURSIVE LStripChars(_, _)
\* s.lstrip(chars)
LStripChars(s, chars) ==
    IF s # "" /\ Char(s, 1) \in chars THEN LStripChars(SubSeq(s, 2, Len(s)), chars)
    ELSE s

\* lines 145-152: the type recorded for a type attribute
clean_type_of(field_type) ==
    LET clean_type == LStripChars(field_type, {".", "\\", "/"})
        contained == SelectSeq(FieldTypeNames, LAMBDA ft : Contains(clean_type, ft))
    IN  IF \E i \in DOMAIN FieldTypeNames : EndsWith(clean_type, FieldTypeNames[i])
        THEN clean_type
        ELSE IF contained # <<>> THEN contained[1]
        ELSE clean_type

\* _get_text (lines 173-187): the text of a child, or the default
_get_text(child_text, default) ==
    IF child_text # "" THEN child_text ELSE default

\* _parse_field on an element without OptionValues
_parse_field(xml_element, name, field_type) ==
    ModelField(name, clean_type_of(field_type),
               Upper(_get_text(xml_element.Required, "N")) = "Y",
               IF xml_element.Default # "" THEN PyStr(xml_element.Default)
               ELSE None,
               <<>>,
               Upper(_get_text(xml_element.Multiple, "N")) = "Y")

\* inputs: type attributes with and without a namespace
TypePrefixes ==
    {"", "./", ".\\", "OPNsense\\Base\\FieldTypes\\",
     ".\\OPNsense\\Base\\FieldTypes\\", "//OPNsense\\Firewall\\FieldTypes\\"}

TypeNames ==
    {"IntegerField", "BooleanField", "TextField", "NumericField",
     "IntegerFieldCustom", "AliasIntegerField", "CustomUnknownField", "Custom"}

FieldElements ==
    {[tag |-> "field", type |-> p \o n, Required |-> r, Default |-> d,
      Multiple |-> ""] :
        p \in TypePrefixes, n \in TypeNames, r \in {"", "Y", "y", "N"},
        d \in {"", "5"}}

---------------------------------------------------------------------------
(* Inputs of ModelParser *)

\* the largest length of a generated raw default string
MaxDefaultLen == 2

DefaultAlphabet == {"0", "1", "5", "-", "+", ".", "_", " ", "e", "y", "N"}

RECURSIVE StringsOver(_, _)
\* the strings over an alphabet of at most n characters
StringsOver(alphabet, n) ==
    IF n = 0 THEN {""}
    ELSE LET shorter == StringsOver(alphabet, n - 1)
         IN  shorter \cup {s \o c : s \in shorter, c \in alphabet}

\* raw <Default> texts: every short string over the alphabet and the
\* defaults of the tests and of shipped models
DefaultStrings ==
    StringsOver(DefaultAlphabet, MaxDefaultLen)
    \cup {"Y", "y", "n", "yes", "Yes", "YES", "no", "true", "True", "TRUE",
          "false", "on", "abc", "not_a_number", "42", "-7", "+15", "3.14",
          "1e3", "1.5E-2", "1_000", "inf", "-Infinity", "NaN", "0x10",
          "1 000", " 42 ", "opt1", "12abc", "1.2.3", "e5", "--1"}

JsonTypes == {"boolean", "integer", "number", "string"}

\* the largest number of fields of the container
MaxFields == 1

FieldTypes ==
    {"BooleanField", "IntegerField", "NumericField", "OptionField", "CustomField"}

FieldDefaults == {None, PyStr("1"), PyStr("5"), PyStr("b")}

FieldOptions ==
    {<<>>, <<PyStr("0"), PyStr("1")>>, <<PyStr("a"), PyStr("b")>>}

FieldNames == {"enabled", "mode"}

ModelFields ==
    {ModelField(n, t, r, d, o, m) :
        n \in FieldNames, t \in FieldTypes, r \in BOOLEAN, d \in FieldDefaults,
        o \in FieldOptions, m \in BOOLEAN}

---------------------------------------------------------------------------
(* OpenApiGenerator (generator/openapi_generator.py) *)

(* An optional str (schema_name, controller.model_name) is None or        *)
(* PyStr(s); "if x" holds for a non-empty str.                            *)
Truthy(x) == x # None /\ x.str # ""

\* {"$ref": "#/components/schemas/<name>"}
Ref(name) == Dict1("$ref", "#/components/schemas/" \o name)

\* {"application/json": {"schema": schema}}
JsonContent(schema) == Dict1("application/json", [schema |-> schema])

\* the StatusResponse component of every document (lines 92-98)
StatusResponse ==
    [type |-> "object",
     properties |->
        [result |-> [type |-> "string", example |-> "saved"],
         validations |-> [type |-> "object",
                          description |-> "Validation errors if failed"]]]

\* self.spec as generate builds it before the controllers are processed
\* (lines 79-106)
FreshSpec(v) ==
    [openapi |-> "3.0.3",
     info |-> [title |-> "OPNsense API", version |-> v,
               description |->
                  "Auto-generated OpenAPI specification for OPNsense " \o v
                  \o ". Includes Enum resolution and UUID path parameters."],
     servers |-> <<[url |-> "https://{host}/api",
                    variables |-> [host |-> [default |-> "192.168.1.1"]]]>>,
     paths |-> EmptyDict,
     components |->
        [schemas |-> [StatusResponse |-> StatusResponse],
         securitySchemes |->
            [basicAuth |-> [type |-> "http", scheme |-> "basic"],
             apiKey |-> [type |-> "apiKey", in |-> "header",
                         name |-> "Authorization"]]],
     security |-> <<[basicAuth |-> <<>>], [apiKey |-> <<>>]>>]

\* _create_search_schema (lines 282-296): the schema stored as <name>Search
SearchSchema(model_schema_name) ==
    [type |-> "object",
     properties |->
        [current |-> [type |-> "integer", example |-> 1],
         rowCount |-> [type |-> "integer", example |-> 10],
         total |-> [type |-> "integer", example |-> 50],
         rows |-> [type |-> "array", items |-> Ref(model_schema_name)]]]

(* models_dir is None or a directory: a function from the paths of its    *)
(* files below models_dir to their contents.  A model file either parses  *)
(* to the properties _parse_model_nodes builds from it, or ET.parse       *)
(* fails on it.                                                           *)
ModelFile(properties) == [items |-> properties]

BrokenXml == [broken |-> TRUE]

\* _parse_xml_model (lines 170-186)
_parse_xml_model(file) ==
    IF file = BrokenXml THEN None
    ELSE [type |-> "object", properties |-> file.items]

\* _find_and_parse_model (lines 154-168)
_find_and_parse_model(dir, vendor, module, controller_name) ==
    IF dir = None THEN None
    ELSE LET strict == vendor \o "/" \o module \o "/" \o controller_name \o ".xml"
             fallback == vendor \o "/" \o module \o "/" \o module \o ".xml"
             xml_path == IF strict \notin DOMAIN dir THEN fallback ELSE strict
         IN  IF xml_path \in DOMAIN dir THEN _parse_xml_model(dir[xml_path])
             ELSE None

\* lines 306-314: the uuid heuristic
target_verbs ==
    {"get", "set", "del", "toggle", "start", "stop", "restart", "kill", "drop",
     "disconnect", "connect"}

target_nouns ==
    {"item", "rule", "server", "client", "job", "route", "alias",
     "certificate", "ca", "session", "key", "vessel"}

uuid_exceptions == {"add", "search", "list", "match", "export", "import", "options"}

\* the heuristic without the exemption tokens
requires_uuid_without_exemptions(act_lower) ==
    /\ ContainsAny(act_lower, target_verbs)
    /\ ContainsAny(act_lower, target_nouns)

requires_uuid(act_lower) ==
    /\ ContainsAny(act_lower, target_verbs)
    /\ ContainsAny(act_lower, target_nouns)
    /\ ~ContainsAny(act_lower, uuid_exceptions)

\* lines 320-326
UuidParameter ==
    [name |-> "uuid", in |-> "path", required |-> TRUE,
     schema |-> [type |-> "string", format |-> "uuid"],
     description |-> "Unique ID of the resource"]

\* the chain with the status names tested before the reconfigure names
Category_StatusBeforeReconfigure(act_lower, schema_name, http_method) ==
    IF ContainsAny(act_lower, {"start", "stop", "restart"}) THEN "service"
    ELSE IF Contains(act_lower, "status") THEN "status"
    ELSE IF Contains(act_lower, "reconfigure") THEN "reconfigure"
    ELSE IF /\ http_method = "GET"
            /\ ContainsAny(act_lower, {"arp", "ndp", "log", "leases", "sessions",
                                       "states", "routes"})
         THEN "array"
    ELSE IF Contains(Replace(act_lower, "_", ""), "isenabled") THEN "isenabled"
    ELSE IF ContainsAny(act_lower, {"stats", "info", "overview", "summary"})
         THEN "stats"
    ELSE IF ContainsAny(act_lower, {"apply", "flush", "revert", "savepoint",
                                    "rollback", "upload", "generate", "kill",
                                    "disconnect", "connect"})
         THEN "special"
    ELSE IF ContainsAny(act_lower, {"export", "download", "rawdump", "dump",
                                    "providers", "accounts", "templates"})
         THEN "export"
    ELSE IF ContainsAny(act_lower, {"list", "aliases", "countries", "groups",
                                    "users", "categories"})
         THEN "list"
    ELSE IF Truthy(schema_name) THEN "model"
    ELSE "fallback"

\* the branch of the if / elif chain of lines 337-510 that is taken
Category(act_lower, schema_name, http_method) ==
    IF ContainsAny(act_lower, {"start", "stop", "restart"}) THEN "service"
    ELSE IF Contains(act_lower, "reconfigure") THEN "reconfigure"
    ELSE IF Contains(act_lower, "status") THEN "status"
    ELSE IF /\ http_method = "GET"
            /\ ContainsAny(act_lower, {"arp", "ndp", "log", "leases", "sessions",
                                       "states", "routes"})
         THEN "array"
    ELSE IF Contains(Replace(act_lower, "_", ""), "isenabled") THEN "isenabled"
    ELSE IF ContainsAny(act_lower, {"stats", "info", "overview", "summary"})
         THEN "stats"
    ELSE IF ContainsAny(act_lower, {"apply", "flush", "revert", "savepoint",
                                    "rollback", "upload", "generate", "kill",
                                    "disconnect", "connect"})
         THEN "special"
    ELSE IF ContainsAny(act_lower, {"export", "download", "rawdump", "dump",
                                    "providers", "accounts", "templates"})
         THEN "export"
    ELSE IF ContainsAny(act_lower, {"list", "aliases", "countries", "groups",
                                    "users", "categories"})
         THEN "list"
    ELSE IF Truthy(schema_name) THEN "model"
    ELSE "fallback"

\* the schemas of lines 341-347, 354-360, 372-382
ServiceActionSchema ==
    [type |-> "object",
     properties |-> [response |-> [type |-> "string",
                                   description |-> "Service command output"]],
     required |-> <<"response">>]

ReconfigureSchema ==
    [type |-> "object",
     properties |-> [status |-> [type |-> "string", enum |-> <<"ok", "failed">>,
                                 description |-> "Reconfigure status"]],
     required |-> <<"status">>]

StatusSchema(action) ==
    [type |-> "object",
     properties |->
        [status |-> [type |-> "string",
                     enum |-> <<"running", "stopped", "disabled", "unknown",
                                "failed", "update", "done", "ok", "inactive",
                                "error", "not found">>],
         widget |-> [type |-> "object", description |-> "UI widget captions"]],
     required |-> IF Contains(action, "widget") THEN <<"status">> ELSE <<>>]

\* lines 390-398
DynamicArraySchema ==
    [type |-> "array",
     items |-> [type |-> "object", additionalProperties |-> True,
                description |-> "Dynamic object representing an item in the list"],
     description |-> "List of dynamic items"]

\* lines 406-415
IsEnabledSchema ==
    [type |-> "object",
     properties |->
        [enabled |-> [type |-> "string", enum |-> <<"0", "1">>,
                      description |-> "Whether feature is enabled (0=false, 1=true)"]]]

\* {"type": "object", "additionalProperties": True, "description": text}
\* (lines 423-427, 441-445, 460-464, 531-535, 549-553)
DynamicObjectSchema(text) ==
    [type |-> "object", additionalProperties |-> True, description |-> text]

\* lines 516-524
GenericPaginatedSchema ==
    [type |-> "object",
     properties |->
        [current |-> [type |-> "integer"],
         rowCount |-> [type |-> "integer"],
         total |-> [type |-> "integer"],
         rows |-> [type |-> "array", items |-> [type |-> "object"]]]]

\* the wrapper key taken from the controller name alone
wrapper_name_of_controller(controller, response_wrapper) == Lower(controller)

\* lines 477-487: the wrapper key and the wrapped single object
wrapper_name(controller, response_wrapper) ==
    IF Truthy(response_wrapper) THEN response_wrapper.str ELSE Lower(controller)

WrappedSchema(controller, schema_name, response_wrapper) ==
    [type |-> "object",
     properties |-> Dict1(wrapper_name(controller, response_wrapper),
                          Ref(schema_name.str))]

\* lines 470-493: the response of the model-backed default
ModelResponseSchema(act_lower, controller, schema_name, response_wrapper) ==
    IF ContainsAny(act_lower, {"search", "find"}) \/ EndsWith(act_lower, "item")
    THEN Ref(schema_name.str \o "Search")
    ELSE IF Contains(act_lower, "get")
         THEN WrappedSchema(controller, schema_name, response_wrapper)
    ELSE IF ContainsAny(act_lower, {"add", "set", "del", "toggle", "update"})
         THEN Ref("StatusResponse")
    ELSE None

\* lines 512-542: the response of the fallback without a model
FallbackResponseSchema(act_lower) ==
    IF ContainsAny(act_lower, {"search", "find"}) \/ EndsWith(act_lower, "item")
    THEN GenericPaginatedSchema
    ELSE IF Contains(act_lower, "get") THEN DynamicObjectSchema("Resource data")
    ELSE IF ContainsAny(act_lower, {"add", "set", "update", "delete", "remove",
                                    "del", "toggle"})
         THEN Ref("StatusResponse")
    ELSE None

\* lines 449-466: the response of the list patterns
ListResponseSchema(act_lower, schema_name) ==
    IF act_lower = "list" /\ Truthy(schema_name)
    THEN Ref(schema_name.str \o "Search")
    ELSE DynamicObjectSchema("Object with dynamic keys or array of items")

\* the schema stored under response_schema["content"]["application/json"]
\* by the branch taken, None when the branch stores no content
ContentSchema(action, controller, schema_name, http_method, response_wrapper) ==
    LET act_lower == Lower(action)
        category == Category(act_lower, schema_name, http_method)
    IN  CASE category = "service" -> ServiceActionSchema
          [] category = "reconfigure" -> ReconfigureSchema
          [] category = "status" -> StatusSchema(action)
          [] category = "array" -> DynamicArraySchema
          [] category = "isenabled" -> IsEnabledSchema
          [] category = "stats" -> DynamicObjectSchema("Statistics or information object")
          [] category = "special" -> Ref("StatusResponse")
          [] category = "export" -> DynamicObjectSchema("Export data or file content")
          [] category = "list" -> ListResponseSchema(act_lower, schema_name)
          [] category = "model" ->
                ModelResponseSchema(act_lower, controller, schema_name, response_wrapper)
          [] category = "fallback" -> FallbackResponseSchema(act_lower)

\* response_schema (lines 332, 337-542)
ResponseSchema(action, controller, schema_name, http_method, response_wrapper) ==
    LET schema == ContentSchema(action, controller, schema_name, http_method,
                                response_wrapper)
    IN  [description |-> "Successful response"]
        @@ (IF schema # None THEN [content |-> JsonContent(schema)] ELSE EmptyDict)

\* request_body (lines 333, 496-508, 545-556, 562-563)
RequestBody(action, controller, schema_name, http_method) ==
    LET act_lower == Lower(action)
        category == Category(act_lower, schema_name, http_method)
    IN  IF Lower(http_method) = "get" THEN None
        ELSE IF category \in {"model", "fallback"}
                /\ ContainsAny(act_lower, {"add", "set", "update"})
             THEN [content |->
                     JsonContent(
                        IF category = "model"
                        THEN [type |-> "object",
                              properties |-> Dict1(Lower(controller),
                                                   Ref(schema_name.str))]
                        ELSE DynamicObjectSchema("Request payload"))]
        ELSE None

\* lines 317-329
PathUrl(module, controller, action) ==
    LET path_base == "/api/" \o Lower(module) \o "/" \o Lower(controller) \o "/"
                     \o action
    IN  IF requires_uuid(Lower(action)) THEN path_base \o "/{uuid}" ELSE path_base

\* the operation object of lines 566-576
Operation(module, controller, action, schema_name, http_method, description, response_wrapper) ==
    [tags |-> <<module>>,
     summary |-> action,
     description |-> IF description # "" THEN description ELSE action,
     operationId |-> module \o "_" \o controller \o "_" \o action,
     parameters |-> IF requires_uuid(Lower(action)) THEN <<UuidParameter>> ELSE <<>>,
     requestBody |-> RequestBody(action, controller, schema_name, http_method),
     responses |-> Dict1("200", ResponseSchema(action, controller, schema_name,
                                               http_method, response_wrapper))]

\* self.spec['paths'][url] = {method_key: operation} (line 565): the path
\* item is assigned, whatever path item url held before
StorePath(paths, url, method_key, operation) ==
    DictSet(paths, url, Dict1(method_key, operation))

\* _add_path_to_spec (lines 298-577) on the document doc
_add_path_to_spec(doc, module, controller, action, schema_name, http_method, description, response_wrapper) ==
    [doc EXCEPT !.paths =
        StorePath(@, PathUrl(module, controller, action), Lower(http_method),
                  Operation(module, controller, action, schema_name, http_method,
                            description, response_wrapper))]

\* ApiEndpoint and ApiController (controller_parser.py lines 8-27)
ApiEndpoint(name, method, description) ==
    [name |-> name, method |-> method, description |-> description]

ApiController(module, controller, endpoints, model_name) ==
    [module |-> module, controller |-> controller, endpoints |-> endpoints,
     model_name |-> model_name]

RECURSIVE EndpointLoop(_, _, _, _, _, _, _)
\* "for endpoint in controller.endpoints" (lines 140-152)
EndpointLoop(doc, endpoints, i, module, ctrl_name, schema_name, response_wrapper) ==
    IF i > Len(endpoints) THEN doc
    ELSE EndpointLoop(
            _add_path_to_spec(doc, module, ctrl_name, endpoints[i].name,
                              schema_name, endpoints[i].method,
                              endpoints[i].description, response_wrapper),
            endpoints, i + 1, module, ctrl_name, schema_name, response_wrapper)

\* lines 127: the wrapper name handed to _add_path_to_spec
response_wrapper_of(controller, ctrl_name) ==
    IF Truthy(controller.model_name) THEN controller.model_name
    ELSE PyStr(Lower(ctrl_name))

\* the schema name handed over whether or not a model was parsed
schema_name_always(schema_name, model_schema) == PyStr(schema_name)

\* "schema_name if model_schema else None" (line 148)
schema_name_passed(schema_name, model_schema) ==
    IF model_schema # None THEN PyStr(schema_name) ELSE None

\* _process_controller (lines 118-152) on the document doc
_process_controller(doc, controller, dir) ==
    LET module == controller.module
        ctrl_name == Replace(controller.controller, "Controller", "")
        response_wrapper == response_wrapper_of(controller, ctrl_name)
        schema_name == "OPNsense" \o module \o ctrl_name
        model_schema == _find_and_parse_model(dir, "OPNsense", module, ctrl_name)
        with_schemas ==
            IF model_schema # None
            THEN [doc EXCEPT !.components.schemas =
                    DictSet(DictSet(@, schema_name, model_schema),
                            schema_name \o "Search", SearchSchema(schema_name))]
            ELSE doc
    IN  EndpointLoop(with_schemas, controller.endpoints, 1, module, ctrl_name,
                     schema_name_passed(schema_name, model_schema),
                     response_wrapper)

RECURSIVE ControllerLoop(_, _, _, _)
\* "for controller in controllers" (lines 108-109)
ControllerLoop(doc, list, i, dir) ==
    IF i > Len(list) THEN doc
    ELSE ControllerLoop(_process_controller(doc, list[i], dir), list, i + 1, dir)

\* the document the controllers are added to is the one self.spec holds
spec_kept(self_spec, v) == IF self_spec = EmptyDict THEN FreshSpec(v) ELSE self_spec

\* lines 79-106: self.spec is assigned the new document, whatever it held
spec_assigned(self_spec, v) == FreshSpec(v)

\* generate (lines 61-116) on a generator whose self.spec is self_spec:
\* the document built and written
generate_on(self_spec, list, v, dir) ==
    ControllerLoop(spec_assigned(self_spec, v), list, 1, dir)

\* generate on a new generator
generate(list, v, dir) == generate_on(EmptyDict, list, v, dir)

\* output_path (line 111)
OutputPath(v) == "opnsense-" \o v \o ".json"

---------------------------------------------------------------------------
(* Inputs of OpenApiGenerator *)

\* the largest number of tokens an action name is composed of
MaxTokens == 2

\* words the naming heuristics look for, and one they do not
ActionTokens ==
    {"get", "set", "add", "search", "start", "reconfigure", "status", "Log",
     "isEnabled", "apply", "list", "Item"}

RECURSIVE Compounds(_)
\* the names composed of 1..n tokens
Compounds(n) ==
    IF n = 1 THEN ActionTokens
    ELSE LET shorter == Compounds(n - 1)
         IN  shorter \cup {s \o t : s \in shorter, t \in ActionTokens}

\* action names of shipped controllers and of the tests
ExtraActions ==
    {"findAlias", "toggleItem", "updateRule", "killSession", "is_enabled",
     "delete", "remove", "getRoutes", "searchTarget", "listCategories",
     "download", "getwidgetStatus", "disconnect", "restart", "stop", "broken",
     "GETITEM", "del", "delItem", "flushLog", "getArp", "stats", "users",
     "dump", "importKey", "getOptions", "foo", "exportList", "statusWidget",
     "getAliasList", "getItemOptions", "getInfo", "applyInfo", "export",
     "exportLog", "exportUsers"}

ActionNames == Compounds(MaxTokens) \cup ExtraActions

HttpMethods == {"GET", "POST"}

Versions == {"24.7.1"}

ModelProperties == [enabled |-> [type |-> "string"]]

\* one controller with one endpoint
PathControllers ==
    {ApiController("Firewall", c, <<ApiEndpoint(a, m, "")>>, n) :
        c \in {"Alias", "FilterUtilController"}, a \in ActionNames,
        m \in HttpMethods, n \in {None, PyStr("dnsmasq")}}

PathModelDirs ==
    {None, Dict1("OPNsense/Firewall/Firewall.xml", ModelFile(ModelProperties))}

\* the largest number of controllers and of endpoints of a controller
MaxControllers == 2

MaxEndpoints == 1

GenEndpoints ==
    {ApiEndpoint("get", "GET", "Retrieve the settings"),
     ApiEndpoint("set", "POST", "")}

\* lists of endpoints with distinct names
EndpointLists ==
    {l \in SeqsUpTo(GenEndpoints, MaxEndpoints) :
        \A i, j \in DOMAIN l : l[i].name = l[j].name => i = j}

GenControllers ==
    {ApiController(n[1], n[2], l, None) :
        n \in {<<"Core", "Service">>, <<"core", "Service">>,
               <<"Core", "ServiceController">>},
        l \in EndpointLists}

GenModelDirs ==
    {None,
     [x \in {"OPNsense/Core/Service.xml", "OPNsense/core/core.xml"} |->
        IF x = "OPNsense/Core/Service.xml" THEN ModelFile(ModelProperties)
        ELSE BrokenXml]}

---------------------------------------------------------------------------
(* specs.py: the bundled specification files                              *)

RECURSIVE Split(_, _)
\* s.split(sep) for a one-character sep
Split(s, sep) ==
    LET i == FirstOf(s, {sep})
    IN  IF i = 0 THEN <<s>>
        ELSE <<SubSeq(s, 1, i - 1)>> \o Split(SubSeq(s, i + 1, Len(s)), sep)

RECURSIVE Join(_, _)
\* sep.join(parts)
Join(parts, sep) ==
    IF parts = <<>> THEN ""
    ELSE IF Len(parts) = 1 THEN parts[1]
    ELSE parts[1] \o sep \o Join(Tail(parts), sep)

\* a list, a tuple, where the call may raise instead
PyList(items) == [list |-> items]

PyTuple(items) == [tuple |-> items]

FileNotFoundError(message) == [raise |-> "FileNotFoundError", message |-> message]

\* the file name of a version's spec in the specs directory
SpecFile(v) == "opnsense-" \o v \o ".json"

\* _version_key: the tuple of the components as ints; int() raises
\* ValueError on a component that is not a number
_version_key(v) ==
    LET parts == Split(v, ".")
    IN  IF \E i \in 1..Len(parts) : Raised(PyIntOf(parts[i])) THEN ValueError
        ELSE PyTuple([i \in 1..Len(parts) |-> PyIntOf(parts[i]).int])

\* a < b for tuples of ints
TupleLess(a, b) ==
    \E i \in 1..(Len(a) + 1) :
        /\ \A j \in 1..(i - 1) : j <= Len(b) /\ a[j] = b[j]
        /\ IF i <= Len(a) THEN i <= Len(b) /\ a[i] < b[i] ELSE i <= Len(b)

RECURSIVE SortedByKey(_)
\* sorted(versions, key=_version_key) for versions whose keys exist
SortedByKey(S) ==
    IF S = {} THEN <<>>
    ELSE LET least == CHOOSE v \in S :
                         \A w \in S :
                             ~TupleLess(_version_key(w).tuple, _version_key(v).tuple)
         IN  <<least>> \o SortedByKey(S \ {least})

\* list_available_specs: the versions of the files opnsense-*.json
list_available_specs(dir) ==
    IF \E v \in dir : Raised(_version_key(v)) THEN ValueError
    ELSE PyList(SortedByKey(dir))

get_spec_path(dir, v) ==
    IF v \in dir THEN [path |-> SpecFile(v)]
    ELSE LET available == list_available_specs(dir)
         IN  IF Raised(available) THEN available
             ELSE FileNotFoundError("No spec file found for version " \o v
                     \o ". Available versions: " \o Join(available.list, ", "))

\* sorted(matching, key=_version_key)[0]
best_match_lowest(matching) == SortedByKey(SetOf(matching))[1]

\* sorted(matching, key=_version_key)[-1]
best_match(matching) == SortedByKey(SetOf(matching))[Len(matching)]

find_best_matching_spec(dir, v) ==
    LET exact == get_spec_path(dir, v)
        version_parts == Split(v, ".")
        major_minor == version_parts[1] \o "." \o version_parts[2]
        available == list_available_specs(dir)
        matching == SelectSeq(available.list,
                       LAMBDA a : StartsWith(a, major_minor \o ".") \/ a = major_minor)
    IN  IF ~Raised(exact) THEN exact
        ELSE IF exact.raise # "FileNotFoundError" THEN exact
        ELSE IF Len(version_parts) < 2
             THEN FileNotFoundError("Invalid version format: " \o v)
        ELSE IF Raised(available) THEN available
        ELSE IF matching = <<>>
             THEN FileNotFoundError("No spec found for version " \o v \o " or "
                     \o major_minor \o ".x. Available versions: "
                     \o Join(available.list, ", "))
        ELSE get_spec_path(dir, best_match(matching))

\* inputs: the specs directory and the requested versions
MaxSpecs == 3

BundledVersions ==
    {"24.1.7", "24.7", "24.7.1", "24.7.3", "24.7.9", "24.7.10", "25.1", "25.7.6"}

SpecsDirs == {d \in SUBSET BundledVersions : Cardinality(d) <= MaxSpecs}

RequestedVersions ==
    {"24.7.999", "24.7", "24.7.1", "24.7.10", "25.1.2", "99.99.99", "24", "24.", ""}

SpecsCalls == {"get_spec_path", "find_best_matching_spec"}

---------------------------------------------------------------------------
(* OpenApiGenerator._parse_model_nodes on an OptionField element (lines    *)
(* 218-234).  The element is a record [OptionValues, Source]: the tags of  *)
(* the children of its OptionValues child (None without such a child) and  *)
(* the text of its Source child ("" without such a child or text).  A file *)
(* of enumerated values holds the tags of the children of its root.        *)

EnumFile(tags) == [root |-> tags]

\* TYPE_MAP["OptionField"] (line 25)
OptionFieldType == [type |-> "string", description |-> "Dropdown selection"]

\* _resolve_external_enums (lines 250-280)
_resolve_external_enums(dir, source_string) ==
    LET parts == Split(source_string, ".")
        in_field_types == parts[1] \o "/" \o parts[2] \o "/FieldTypes/"
                          \o parts[Len(parts)] \o ".xml"
        in_module == parts[1] \o "/" \o parts[2] \o "/" \o parts[Len(parts)]
                     \o ".xml"
        xml_path == IF in_field_types \in DOMAIN dir THEN in_field_types
                    ELSE in_module
    IN  IF dir = None THEN <<>>
        ELSE IF Len(parts) < 3 THEN <<>>
        ELSE IF xml_path \notin DOMAIN dir THEN <<>>
        ELSE IF dir[xml_path] = BrokenXml THEN <<>>
        ELSE dir[xml_path].root

\* lines 220-225: the property after the inline options were looked at
with_inline_enum(prop_def, inline_opts) ==
    IF inline_opts # None /\ inline_opts.tags # <<>>
    THEN [enum |-> inline_opts.tags] @@ prop_def
    ELSE prop_def

\* lines 227-232: the property after the external source was looked at
with_source_enum(prop_def, dir, source_text) ==
    IF source_text # "" /\ _resolve_external_enums(dir, source_text) # <<>>
    THEN [enum |-> _resolve_external_enums(dir, source_text)] @@ prop_def
    ELSE prop_def

\* the property of an OptionField element (lines 202, 219-234)
option_field_property(dir, elem) ==
    with_source_enum(with_inline_enum(OptionFieldType, elem.OptionValues),
                     dir, elem.Source)

\* inputs
OptionElements ==
    {[OptionValues |-> o, Source |-> s] :
        o \in {None, [tags |-> <<>>], [tags |-> <<"tcp", "udp">>]},
        s \in {"", "OPNsense.Firewall.AliasTypes", "OPNsense.Firewall",
               "OPNsense.Firewall.Missing", "AliasTypes"}}

EnumDirs ==
    {None, EmptyDict,
     Dict1("OPNsense/Firewall/FieldTypes/AliasTypes.xml", EnumFile(<<"host", "network">>)),
     Dict1("OPNsense/Firewall/AliasTypes.xml", EnumFile(<<"port">>)),
     Dict1("OPNsense/Firewall/AliasTypes.xml", EnumFile(<<>>)),
     [x \in {"OPNsense/Firewall/FieldTypes/AliasTypes.xml",
             "OPNsense/Firewall/AliasTypes.xml"} |->
        IF x = "OPNsense/Firewall/AliasTypes.xml" THEN EnumFile(<<"port">>)
        ELSE EnumFile(<<"host", "network">>)],
     [x \in {"OPNsense/Firewall/FieldTypes/AliasTypes.xml",
             "OPNsense/Firewall/AliasTypes.xml"} |->
        IF x = "OPNsense/Firewall/AliasTypes.xml" THEN EnumFile(<<"port">>)
        ELSE BrokenXml]}

---------------------------------------------------------------------------
(* HTTP responses: raise_for_status and response.json()                   *)

JSONDecodeError == [raise |-> "JSONDecodeError"]

HTTPStatusError == [raise |-> "HTTPStatusError"]

ConnectError == [raise |-> "ConnectError"]

\* a response of the server
Response(status_code, text) == [status_code |-> status_code, text |-> text]

\* response.is_success
is_success(response) == response.status_code \in 200..299

\* a JSON string without escapes
IsJsonString(t) ==
    /\ Len(t) >= 2
    /\ Char(t, 1) = "\"" /\ Char(t, Len(t)) = "\""
    /\ \A i \in 2..(Len(t) - 1) : Char(t, i) \notin {"\"", "\\"}

\* a JSON integer
IsJsonInt(t) ==
    LET digits == IF StartsWith(t, "-") THEN SubSeq(t, 2, Len(t)) ELSE t
    IN  /\ digits # ""
        /\ \A i \in 1..Len(digits) : IsDigit(Char(digits, i))
        /\ Len(digits) > 1 => Char(digits, 1) # "0"

\* json.loads of a literal, a number or a string
JsonScalar(t) ==
    IF t = "null" THEN None
    ELSE IF t = "true" THEN PyBool(TRUE)
    ELSE IF t = "false" THEN PyBool(FALSE)
    ELSE IF IsJsonString(t) THEN PyStr(SubSeq(t, 2, Len(t) - 1))
    ELSE IF IsJsonInt(t)
         THEN PyInt(IF StartsWith(t, "-") THEN 0 - DigitsValue(SubSeq(t, 2, Len(t)), 0)
                    ELSE DigitsValue(t, 0))
    ELSE JSONDecodeError

\* json.loads of the member "key": value of an object
JsonMember(t) ==
    LET colon == FirstOf(t, {":"})
        key == Strip(SubSeq(t, 1, colon - 1))
        value == JsonScalar(Strip(SubSeq(t, colon + 1, Len(t))))
    IN  IF colon = 0 \/ ~IsJsonString(key) \/ Raised(value) THEN JSONDecodeError
        ELSE [key |-> SubSeq(key, 2, Len(key) - 1), value |-> value]

\* json.loads(text) for a text that is a scalar, an empty array or an
\* object whose members are scalars without "," and ":" in their strings
json_loads(text) ==
    LET t == Strip(text)
        inner == Strip(SubSeq(t, 2, Len(t) - 1))
        members == [i \in DOMAIN Split(inner, ",") |->
                       JsonMember(Strip(Split(inner, ",")[i]))]
    IN  IF Len(t) >= 2 /\ Char(t, 1) = "{" /\ Char(t, Len(t)) = "}"
        THEN IF inner = "" THEN EmptyDict
             ELSE IF \E i \in DOMAIN members : Raised(members[i]) THEN JSONDecodeError
             ELSE [k \in {members[i].key : i \in DOMAIN members} |->
                      members[CHOOSE i \in DOMAIN members :
                                 /\ members[i].key = k
                                 /\ \A j \in DOMAIN members :
                                       members[j].key = k => j <= i].value]
        ELSE IF Len(t) >= 2 /\ Char(t, 1) = "[" /\ Char(t, Len(t)) = "]"
                /\ Strip(SubSeq(t, 2, Len(t) - 1)) = ""
             THEN PyList(<<>>)
        ELSE JsonScalar(t)

---------------------------------------------------------------------------
(* openapi.py: APIWrapper over a loaded document api_spec                 *)
(*                                                                         *)
(* A request body, a sample and a parsed response hold values of mixed     *)
(* type: they carry their type (PyStr, PyInt, PyBool, PyList), and a dict  *)
(* is a record of such values.  The strings and numbers inside a schema    *)
(* of the document are plain.                                              *)

KeyError == [raise |-> "KeyError"]

AttributeError == [raise |-> "AttributeError"]

RecursionError == [raise |-> "RecursionError"]

ValueTags == {"str", "int", "bool", "float", "list", "tuple", "py", "raise"}

IsDict(v) == DOMAIN v \cap ValueTags = {}

\* the keys of a dict in the order the dict holds them
RECURSIVE KeysOf(_)
KeysOf(S) ==
    IF S = {} THEN <<>>
    ELSE LET k == CHOOSE x \in S : TRUE IN <<k>> \o KeysOf(S \ {k})

\* an exception raised while the values of a dict or list were computed,
\* otherwise the values
Propagate(results) ==
    IF \E k \in DOMAIN results : Raised(results[k])
    THEN results[CHOOSE k \in DOMAIN results : Raised(results[k])]
    ELSE results

\* __init__ (lines 44-56): urlparse(server_url).path of "scheme://host/path"
UrlPath(server_url) ==
    LET rest == IF Contains(server_url, "://")
                THEN SubSeq(server_url,
                            (CHOOSE i \in 1..Len(server_url) :
                                /\ SubSeq(server_url, i, i + 2) = "://"
                                /\ \A j \in 1..(i - 1) :
                                      SubSeq(server_url, j, j + 2) # "://") + 3,
                            Len(server_url))
                ELSE server_url
        slash == FirstOf(rest, {"/"})
    IN  IF slash = 0 THEN "" ELSE SubSeq(rest, slash, Len(rest))

\* self.base_api_path for base_api_path = "" (lines 44-56)
base_api_path(api_spec) ==
    IF "basePath" \in DOMAIN api_spec THEN api_spec.basePath
    ELSE IF "servers" \in DOMAIN api_spec /\ api_spec.servers # <<>>
         THEN LET server_url == Get(api_spec.servers[1], "url", "")
              IN  IF Contains(server_url, "/") THEN UrlPath(server_url) ELSE ""
    ELSE ""

\* _get_operation (lines 80-107): the operation returned, or KeyError
_get_operation(api_spec, cache, api_path, method) ==
    LET cache_key == <<api_path, Lower(method)>>
        path == Get(api_spec.paths, api_path, None)
        operation == Get(path, Lower(method), None)
    IN  IF cache_key \in DOMAIN cache THEN cache[cache_key]
        ELSE IF path = None THEN KeyError
        ELSE IF operation = None THEN KeyError
        ELSE operation

\* the entry stored under the verb as the caller wrote it
CacheAfter_KeyAsGiven(api_spec, cache, api_path, method) ==
    LET cache_key == <<api_path, method>>
        operation == _get_operation(api_spec, cache, api_path, method)
    IN  IF cache_key \in DOMAIN cache \/ Raised(operation) THEN cache
        ELSE [k \in DOMAIN cache \cup {cache_key} |->
                 IF k = cache_key THEN operation ELSE cache[k]]

\* self._operation_cache after _get_operation (line 106)
CacheAfter(api_spec, cache, api_path, method) ==
    LET cache_key == <<api_path, Lower(method)>>
        operation == _get_operation(api_spec, cache, api_path, method)
    IN  IF cache_key \in DOMAIN cache \/ Raised(operation) THEN cache
        ELSE [k \in DOMAIN cache \cup {cache_key} |->
                 IF k = cache_key THEN operation ELSE cache[k]]

RECURSIVE Lookup(_, _, _)
\* new_ref = new_ref[key] for the keys of a reference (lines 117-120)
Lookup(node, keys, i) ==
    IF i > Len(keys) THEN node
    ELSE IF keys[i] \notin DOMAIN node THEN KeyError
    ELSE Lookup(node[keys[i]], keys, i + 1)

\* _resolve_ref (lines 109-120)
_resolve_ref(api_spec, ref) ==
    IF ~StartsWith(ref, "#") THEN EmptyDict
    ELSE Lookup(api_spec, Tail(Split(ref, "/")), 1)

\* the depth of the call stack at which the interpreter raises
\* RecursionError
RecursionLimit == 12

\* the keys of a schema whose value is a schema, and those whose value is
\* a dict of schemas; the values of the other keys are strings, numbers,
\* booleans and lists of them, which _resolve_refs returns as they are
SchemaKeys == {"items"}

SchemaDictKeys == {"properties"}

RECURSIVE _resolve_refs(_, _, _)
RECURSIVE ResolveValues(_, _, _)

\* _resolve_refs on a dict of schemas
ResolveValues(api_spec, dict, depth) ==
    IF depth > RecursionLimit THEN RecursionError
    ELSE IF "$ref" \in DOMAIN dict
         THEN _resolve_refs(api_spec, dict, depth)
    ELSE Propagate([k \in DOMAIN dict |-> _resolve_refs(api_spec, dict[k], depth + 1)])

\* _resolve_refs (lines 122-131) on a schema, at a depth of the call stack
_resolve_refs(api_spec, schema, depth) ==
    IF depth > RecursionLimit THEN RecursionError
    ELSE IF "$ref" \in DOMAIN schema
         THEN LET target == _resolve_ref(api_spec, schema["$ref"])
              IN  IF Raised(target) THEN target
                  ELSE _resolve_refs(api_spec, target, depth + 1)
    ELSE LET nested == DOMAIN schema \cap (SchemaKeys \cup SchemaDictKeys)
             results ==
                [k \in nested |->
                    IF k \in SchemaKeys
                    THEN _resolve_refs(api_spec, schema[k], depth + 1)
                    ELSE ResolveValues(api_spec, schema[k], depth + 1)]
         IN  IF \E k \in nested : Raised(results[k])
             THEN results[CHOOSE k \in nested : Raised(results[k])]
             ELSE [k \in DOMAIN schema |->
                      IF k \in nested THEN results[k] ELSE schema[k]]

\* _format_path (lines 133-145)
RECURSIVE FormatLoop(_, _, _, _)
FormatLoop(path, path_params, keys, i) ==
    IF i > Len(keys) THEN path
    ELSE LET k == keys[i]
             v == path_params[k]
             single == Replace(path, "{" \o k \o "}", v)
         IN  FormatLoop(Replace(single, "{{" \o k \o "}}", v), path_params, keys, i + 1)

_format_path(base, path_template, path_params) ==
    LET path == base \o path_template
    IN  IF path_params = None \/ DOMAIN path_params = {} THEN path
        ELSE FormatLoop(path, path_params, KeysOf(DOMAIN path_params), 1)

\* _get_request_schema (lines 157-170): the resolved schema, None, or the
\* exception raised
_get_request_schema(api_spec, cache, path_template, method) ==
    LET op == _get_operation(api_spec, cache, path_template, method)
        request_body == Get(op, "requestBody", EmptyDict)
        content == Get(Get(request_body, "content", EmptyDict),
                       "application/json", EmptyDict)
        schema == Get(content, "schema", None)
    IN  IF Raised(op) THEN op
        ELSE IF request_body = None THEN AttributeError
        ELSE IF schema = None \/ DOMAIN schema = {} THEN None
        ELSE _resolve_refs(api_spec, schema, 0)

\* schema.get("type"), "" where there is none
TypeOf(schema) == IF "type" \in DOMAIN schema THEN schema.type ELSE ""

\* the sample of a property whose resolved schema has no nested sample
PlainSample(name, sub) ==
    LET subtype == TypeOf(sub)
    IN  IF "enum" \in DOMAIN sub /\ sub.enum # <<>> THEN PyStr(sub.enum[1])
        ELSE IF subtype = "string" \/ "type" \notin DOMAIN sub
             THEN PyStr("<" \o name \o ">")
        ELSE IF subtype = "integer" THEN PyInt(0)
        ELSE IF subtype = "number" THEN PyFloat(1, 0, 0, "")
        ELSE IF subtype = "boolean" THEN PyBool(FALSE)
        ELSE None

RECURSIVE _build_sample_from_schema(_, _)
\* _build_sample_from_schema (lines 172-217)
_build_sample_from_schema(api_spec, schema) ==
    LET t == TypeOf(schema)
        props == Get(schema, "properties", EmptyDict)
        resolved == [name \in DOMAIN props |-> _resolve_refs(api_spec, props[name], 0)]
        Nested(sub) ==
            "type" \in DOMAIN sub /\ sub.type \in {"array", "object"}
            /\ ~("enum" \in DOMAIN sub /\ sub.enum # <<>>)
        sample ==
            [name \in DOMAIN props |->
                LET sub == resolved[name]
                IN  IF ~Nested(sub) THEN PlainSample(name, sub)
                    ELSE IF sub.type = "array"
                         THEN PyList(<<_build_sample_from_schema(
                                          api_spec, Get(sub, "items", EmptyDict))>>)
                    ELSE _build_sample_from_schema(api_spec, sub)]
    IN  IF t = "" /\ "oneOf" \in DOMAIN schema
        THEN _build_sample_from_schema(api_spec, schema.oneOf[1])
        ELSE IF t = "object" \/ "properties" \in DOMAIN schema
             THEN IF \E name \in DOMAIN props : Raised(resolved[name])
                  THEN resolved[CHOOSE name \in DOMAIN props : Raised(resolved[name])]
                  ELSE sample
        ELSE IF t = "array"
             THEN PyList(<<_build_sample_from_schema(
                              api_spec, Get(schema, "items", EmptyDict))>>)
        ELSE IF t = "string" THEN PyStr("<string>")
        ELSE IF t = "integer" THEN PyInt(0)
        ELSE IF t = "number" THEN PyFloat(1, 0, 0, "")
        ELSE IF t = "boolean" THEN PyBool(FALSE)
        ELSE EmptyDict

\* list_endpoints (lines 247-264): the triples of one path item, and of
\* the document
EndpointsOf(path, methods) ==
    LET Triple(m) ==
            IF "summary" \in DOMAIN methods[m]
            THEN <<<<path, Upper(m), methods[m].summary>>>>
            ELSE IF "description" \in DOMAIN methods[m]
                 THEN LET summary == methods[m].description
                      IN  <<<<path, Upper(m),
                              IF Contains(summary, ".") THEN Split(summary, ".")[1]
                              ELSE summary>>>>
            ELSE <<>>
        RECURSIVE Loop(_, _)
        Loop(keys, i) == IF i > Len(keys) THEN <<>>
                         ELSE Triple(keys[i]) \o Loop(keys, i + 1)
    IN  Loop(KeysOf(DOMAIN methods), 1)

RECURSIVE PathsLoop(_, _, _)
PathsLoop(api_spec, paths, i) ==
    IF i > Len(paths) THEN <<>>
    ELSE EndpointsOf(paths[i], api_spec.paths[paths[i]])
            \o PathsLoop(api_spec, paths, i + 1)

list_endpoints(api_spec) == PathsLoop(api_spec, KeysOf(DOMAIN api_spec.paths), 1)

\* jsonschema.validate(instance, schema) for the keywords type, enum,
\* required, properties and items: TRUE, or FALSE where it raises
\* ValidationError
TypeMatches(instance, t) ==
    CASE t = "object" -> IsDict(instance)
      [] t = "string" -> "str" \in DOMAIN instance
      [] t = "integer" -> "int" \in DOMAIN instance
      [] t = "boolean" -> "bool" \in DOMAIN instance
      [] t = "array" -> "list" \in DOMAIN instance
      [] t = "number" -> DOMAIN instance \cap {"int", "float"} # {}
      [] OTHER -> FALSE

RECURSIVE validate(_, _)
validate(instance, schema) ==
    /\ "type" \in DOMAIN schema => TypeMatches(instance, schema.type)
    /\ "enum" \in DOMAIN schema =>
          \E i \in DOMAIN schema.enum : instance = PyStr(schema.enum[i])
    /\ ("required" \in DOMAIN schema /\ IsDict(instance)) =>
          \A i \in DOMAIN schema.required : schema.required[i] \in DOMAIN instance
    /\ ("properties" \in DOMAIN schema /\ IsDict(instance)) =>
          \A k \in DOMAIN schema.properties \cap DOMAIN instance :
              validate(instance[k], schema.properties[k])
    /\ ("items" \in DOMAIN schema /\ "list" \in DOMAIN instance) =>
          \A i \in DOMAIN instance.list : validate(instance.list[i], schema.items)

\* lines 335-340: True, or False where ValidationError was caught
ExceptValidationError(valid) == PyBool(valid)

\* validate_body (lines 320-340)
validate_body(api_spec, cache, path_template, method, body) ==
    LET schema == _get_request_schema(api_spec, cache, path_template, method)
    IN  IF body = None THEN PyBool(TRUE)
        ELSE IF Raised(schema) THEN schema
        ELSE IF schema = None \/ DOMAIN schema = {} THEN PyBool(TRUE)
        ELSE ExceptValidationError(validate(body, schema))

---------------------------------------------------------------------------
\* _extract_parameters (lines 147-155): the parameters of the operation
\* declared in the path and in the query, or the exception raised; the
\* documents hold a list under "parameters" or no such key
_extract_parameters(api_spec, cache, path_template, method) ==
    LET op == _get_operation(api_spec, cache, path_template, method)
        params == Get(op, "parameters", <<>>)
    IN  IF Raised(op) THEN op
        ELSE [path_params |-> SelectSeq(params, LAMBDA p : Get(p, "in", "") = "path"),
              query_params |-> SelectSeq(params, LAMBDA p : Get(p, "in", "") = "query")]

\* d.get(k) for a slot holding a str: the str, or None
GetStr(d, k) == IF k \in DOMAIN d THEN PyStr(d[k]) ELSE None

\* simplify (lines 357-367)
simplify(param) ==
    LET sch == Get(param, "schema", EmptyDict)
    IN  [name |-> GetStr(param, "name"),
         in |-> GetStr(param, "in"),
         type |-> GetStr(sch, "type"),
         required |-> PyBool(Get(param, "required", FALSE)),
         description |-> GetStr(param, "description"),
         enum |-> IF "enum" \in DOMAIN sch THEN PyList(sch.enum) ELSE None,
         format |-> GetStr(sch, "format")]

\* the headers of the session (line 73)
SessionHeaders == Dict1("Content-Type", "application/json")

\* suggest_parameters (lines 342-383): the structure returned, or the
\* exception raised
suggest_parameters(api_spec, cache, path_template, method) ==
    LET upper == Upper(method)
        op == _get_operation(api_spec, cache, path_template, upper)
        extracted == _extract_parameters(api_spec, cache, path_template, upper)
        schema == _get_request_schema(api_spec, cache, path_template, upper)
        body_sample ==
            IF schema = None \/ DOMAIN schema = {} THEN None
            ELSE _build_sample_from_schema(api_spec, schema)
    IN  IF Raised(op) THEN op
        ELSE IF Raised(extracted) THEN extracted
        ELSE IF Raised(schema) THEN schema
        ELSE IF Raised(body_sample) THEN body_sample
        ELSE [path |-> path_template,
              method |-> upper,
              summary |-> GetStr(op, "summary"),
              path_params |-> PyList([i \in DOMAIN extracted.path_params |->
                                         simplify(extracted.path_params[i])]),
              query_params |-> PyList([i \in DOMAIN extracted.query_params |->
                                          simplify(extracted.query_params[i])]),
              headers |-> SessionHeaders,
              body_sample |-> body_sample]

---------------------------------------------------------------------------
(* APIWrapper.call_endpoint (lines 385-432), step by step                 *)

\* urlencode(query_params, doseq=True) for names and values made of
\* letters and digits
RECURSIVE EncodeLoop(_, _, _)
EncodeLoop(query_params, keys, i) ==
    IF i > Len(keys) THEN <<>>
    ELSE <<keys[i] \o "=" \o query_params[keys[i]]>>
            \o EncodeLoop(query_params, keys, i + 1)

urlencode(query_params) ==
    Join(EncodeLoop(query_params, KeysOf(DOMAIN query_params), 1), "&")

\* lines 406-413: the url of the request
RequestUrl(base_url, base, path_template, path_params, query_params) ==
    LET url == base_url \o _format_path(base, path_template, path_params)
    IN  IF query_params = None \/ DOMAIN query_params = {} THEN url
        ELSE url \o "?" \o urlencode(query_params)

\* the step after validate_body where its result is not tested
after_validate_unchecked(valid) == "format"

\* lines 402-403: the step after validate_body returned valid
after_validate(valid) == IF valid.bool THEN "format" ELSE "raised"

\* lines 428-432: resp.json(), resp.text where it raises ValueError
ParsedOrText(response) ==
    LET parsed == json_loads(response.text)
    IN  IF Raised(parsed) THEN PyStr(response.text) ELSE parsed

---------------------------------------------------------------------------
(* SpecValidator.validate_endpoints (validator.py of the packages         *)
(* opnsense_api and opnsense_openapi)                                     *)

\* the words of line 64
DangerousWords == {"reboot", "poweroff", "halt", "delete", "destroy"}

\* the words looked for in the path as the document spells it
is_dangerous_as_spelled(path) == ContainsAny(path, DangerousWords)

\* any(x in path.lower() for x in [...]) (line 64)
is_dangerous(path) == ContainsAny(Lower(path), DangerousWords)

\* lines 56-65: the path is requested
Crawled(path, methods) ==
    /\ "get" \in DOMAIN methods
    /\ ~Contains(path, "{")
    /\ ~is_dangerous(path)

\* a response of the server with its Content-Type header
CrawlResponse(status_code, content_type, text) ==
    [status_code |-> status_code, content_type |-> content_type, text |-> text]

NameError == [raise |-> "NameError", message |-> "name 'ValidationError' is not defined"]

ValidationError == [raise |-> "ValidationError"]

\* the result of lines 68-74 with the fields assigned afterwards
CrawlResult(path, valid, error, status) ==
    [path |-> path, method |-> "GET", valid |-> valid, error |-> error,
     status |-> status]

\* response.json(), the schema lookup and validator.validate(data): None,
\* or the exception raised (opnsense_api lines 95-104, opnsense_openapi
\* lines 90-95)
ValidateData(response, content) ==
    LET data == json_loads(response.text)
    IN  IF Raised(data) THEN JSONDecodeError
        ELSE IF "application/json" \notin DOMAIN content THEN KeyError
        ELSE IF "schema" \notin DOMAIN content["application/json"] THEN KeyError
        ELSE IF validate(data, content["application/json"].schema) THEN None
        ELSE ValidationError

\* opnsense_api/validator.py lines 93-114: valid and error for a response;
\* the text of a schema mismatch is given without the message of the
\* ValidationError
ApiOutcome(methods, response) ==
    LET raised == ValidateData(response,
                               Get(methods.get.responses["200"], "content", EmptyDict))
    IN  IF response.status_code # 200
        THEN [valid |-> FALSE, error |-> PyStr("HTTP " \o ToString(response.status_code))]
        ELSE IF raised = None THEN [valid |-> TRUE, error |-> None]
        ELSE IF raised = ValidationError
             THEN [valid |-> FALSE, error |-> PyStr("Schema mismatch")]
        ELSE IF raised = JSONDecodeError
             THEN [valid |-> FALSE, error |-> PyStr("Invalid JSON response")]
        ELSE [valid |-> FALSE, error |-> PyStr("Schema definition missing for 200 OK")]

\* opnsense_openapi/validator.py lines 81-118: the name ValidationError of
\* the second except clause is not bound in the module, so an exception
\* that json.JSONDecodeError does not match leaves the inner try as
\* NameError and reaches "except Exception" (lines 120-121)
OpenapiOutcome(methods, response) ==
    LET content_type == Lower(response.content_type)
        content == Get(methods.get.responses["200"], "content", EmptyDict)
        raised == ValidateData(response, content)
    IN  IF response.status_code # 200
        THEN [valid |-> FALSE, error |-> PyStr("HTTP " \o ToString(response.status_code))]
        ELSE IF "application/json" \in DOMAIN content
             THEN IF ~Contains(content_type, "application/json")
                  THEN [valid |-> FALSE,
                        error |-> PyStr("Content-Type mismatch: Server returned '"
                                        \o content_type
                                        \o "' but schema expected 'application/json'.")]
                  ELSE IF raised = None THEN [valid |-> TRUE, error |-> None]
                  ELSE IF raised = JSONDecodeError
                       THEN [valid |-> FALSE,
                             error |-> PyStr("Invalid JSON response (server returned malformed JSON)")]
                  ELSE [valid |-> FALSE, error |-> PyStr(NameError.message)]
        ELSE IF content # EmptyDict
             THEN [valid |-> TRUE,
                   error |-> PyStr("Non-JSON schema defined. Server returned '" \o content_type
                                   \o "'. Skipped schema validation.")]
        ELSE [valid |-> TRUE,
              error |-> PyStr("No content schema defined for 200 OK. Skipped content validation.")]

\* the result yielded for a path whose request was answered by response,
\* or failed with an exception (lines 68-119)
EndpointResult(package, path, methods, response) ==
    IF Raised(response) THEN CrawlResult(path, FALSE, PyStr(response.message), 0)
    ELSE LET outcome == IF package = "opnsense_api" THEN ApiOutcome(methods, response)
                        ELSE OpenapiOutcome(methods, response)
         IN  CrawlResult(path, outcome.valid, outcome.error, response.status_code)

---------------------------------------------------------------------------
(* cli.py: the commands download and generate                             *)

TypeError(message) == [raise |-> "TypeError", message |-> message]

\* the parameters of OpenApiGenerator.generate behind self
\* (openapi_generator.py lines 61-66)
GenerateParameters == <<"controllers", "version", "models_dir">>

\* the call of cli.py lines 140-145: two positional arguments and the
\* keywords
GeneratePositional == 2

GenerateKeywords == {"models_dir", "controllers_dir"}

\* the binding of the arguments of a call to the parameters of a function
\* without *args and **kwargs: None, or the TypeError raised for a
\* positional argument too many or a keyword the function does not declare
BindArguments(function_name, parameters, positional, keywords) ==
    LET unexpected == keywords \ SetOf(parameters)
    IN  IF positional > Len(parameters)
        THEN TypeError(function_name \o "() takes " \o ToString(Len(parameters) + 1)
                       \o " positional arguments but " \o ToString(positional + 1)
                       \o " were given")
        ELSE IF unexpected # {}
        THEN TypeError(function_name \o "() got an unexpected keyword argument '"
                       \o (CHOOSE k \in unexpected : TRUE) \o "'")
        ELSE None

\* the exit code of the process: 0 where the command returns, the code of
\* typer.Exit, 1 where an exception leaves the command
ExitCodeOf(raised) == IF raised = None THEN 0 ELSE 1

---------------------------------------------------------------------------
(* client/base.py: OPNsenseClient.get and OPNsenseClient.post             *)

APIResponseError(response_text) ==
    [raise |-> "APIResponseError", response_text |-> response_text]

\* the module json, which the name json denotes in get
JsonModule == [py |-> "module json"]

\* _build_url (lines 82-96)

JoinPath(parts) == Join(parts, "/")

_build_url(base_url, module, controller, command, params) ==
    base_url \o "/" \o JoinPath(<<"api", module, controller, command>> \o params)

\* `except json.JSONDecodeError as e: raise APIResponseError(...)` while
\* response.json() raised JSONDecodeError: json.JSONDecodeError is looked
\* up on what the name json denotes in the function
ExceptJSONDecodeError(json, response) ==
    IF json = JsonModule THEN APIResponseError(response.text)
    ELSE AttributeError

\* lines 118-123 and 153-157: raise_for_status, then response.json()
ParsedResponse(json, response) ==
    IF ~is_success(response) THEN HTTPStatusError
    ELSE LET parsed == json_loads(response.text)
         IN  IF Raised(parsed) THEN ExceptJSONDecodeError(json, response)
             ELSE parsed

\* get (lines 98-123): json is the module
get(response) == ParsedResponse(JsonModule, response)

\* post (lines 125-157): json is the keyword parameter
post(json, response) == ParsedResponse(json, response)

---------------------------------------------------------------------------
(* downloader/source_downloader.py: SourceDownloader.download             *)
(*                                                                         *)
(* cache_dir maps the versions that have a directory below it to the tree  *)
(* of that directory: whether the controllers directory exists in it and   *)
(* the tag it was cloned from ("" for a tree that was there before).  The  *)
(* remote maps the tags of the repository to whether the tree of the tag   *)
(* holds the controllers directory.                                        *)

RuntimeError(message) == [raise |-> "RuntimeError", message |-> message]

\* utils.validate_version: VERSION_PATTERN = ^v?\d+\.\d+(\.\d+)?$
validate_version(v) ==
    LET body == IF StartsWith(v, "v") THEN SubSeq(v, 2, Len(v)) ELSE v
        parts == Split(body, ".")
    IN  /\ Len(parts) \in {2, 3}
        /\ \A i \in DOMAIN parts :
              parts[i] # "" /\ \A j \in 1..Len(parts[i]) : IsDigit(Char(parts[i], j))

\* version_dir / CONTROLLERS_PATH
ControllersDir(v) == v \o "/src/opnsense/mvc/app/controllers/OPNsense"

Tree(controllers_exist, tag) == [controllers |-> controllers_exist, tag |-> tag]

\* controllers_dir.exists()
controllers_exist(dir, v) == v \in DOMAIN dir /\ dir[v].controllers

\* the cached tree is used whatever force says
use_cache_ignoring_force(dir, v, force) == controllers_exist(dir, v)

\* line 51: the cached tree is used
use_cache(dir, v, force) == controllers_exist(dir, v) /\ ~force

\* lines 56-58: shutil.rmtree(version_dir) when forcing
after_cleanup(dir, v, force) ==
    IF v \in DOMAIN dir /\ force THEN [x \in DOMAIN dir \ {v} |-> dir[x]] ELSE dir

\* _git_clone_tag (lines 86-113): git clone succeeds for a tag of the
\* repository into a target directory that does not exist
clone_succeeds(dir, remote, tag, v) == tag \in DOMAIN remote /\ v \notin DOMAIN dir

\* lines 63-76: the tags git clone is run with, in order
tags_tried(dir, remote, v) ==
    IF clone_succeeds(dir, remote, v, v) THEN <<v>> ELSE <<v, "v" \o v>>

\* the tag that was cloned, "" if both attempts failed
tag_cloned(dir, remote, v) ==
    IF clone_succeeds(dir, remote, v, v) THEN v
    ELSE IF clone_succeeds(dir, remote, "v" \o v, v) THEN "v" \o v
    ELSE ""

\* download (lines 28-84): the result, the cache directory and the clones
\* run
download(dir, remote, v, force) ==
    LET cleaned == after_cleanup(dir, v, force)
        tag == tag_cloned(cleaned, remote, v)
        cloned == DictSet(cleaned, v, Tree(remote[tag], tag))
    IN  IF ~validate_version(v)
        THEN [result |-> [raise |-> "ValueError",
                          message |-> "Invalid version format: " \o v
                             \o ". Expected format: XX.X or XX.X.X (e.g., 24.7, 24.7.1)"],
              cache_dir |-> dir, clones |-> <<>>]
        ELSE IF use_cache(dir, v, force)
        THEN [result |-> [path |-> ControllersDir(v)], cache_dir |-> dir,
              clones |-> <<>>]
        ELSE IF tag = ""
        THEN [result |-> RuntimeError("Failed to download OPNsense version " \o v
                                      \o ". Version may not exist. Error: Git clone failed"),
              cache_dir |-> cleaned, clones |-> tags_tried(cleaned, remote, v)]
        ELSE IF ~cloned[v].controllers
        THEN [result |-> RuntimeError("Controllers directory not found after download: "
                                      \o ControllersDir(v)),
              cache_dir |-> cloned, clones |-> tags_tried(cleaned, remote, v)]
        ELSE [result |-> [path |-> ControllersDir(v)], cache_dir |-> cloned,
              clones |-> tags_tried(cleaned, remote, v)]

\* inputs
DownloadVersions == {"24.7", "24.7.1", "v25.1", "master", "24"}

RemoteTags == {"24.7", "24.7.1", "v24.7.1", "v25.1"}

\* the largest number of tags of the repository
MaxTags == 2

Remotes ==
    {r \in UNION {[T -> BOOLEAN] : T \in SUBSET RemoteTags} :
        Cardinality(DOMAIN r) <= MaxTags}

\* the cache before the call: nothing, or one version directory
CacheDirs ==
    {EmptyDict}
    \cup {Dict1(v, Tree(c, "")) : v \in {"24.7", "24.7.1"}, c \in BOOLEAN}

---------------------------------------------------------------------------
(* controller_parser.py: ControllerParser._guess_http_method              *)

get_patterns ==
    <<"get", "list", "export", "show", "fetch", "info", "overview", "status">>

post_patterns ==
    <<"set", "add", "del", "save", "update", "create", "toggle", "reconfigure">>

\* the method guessed from the declared parameters
_guess_http_method_by_parameters(endpoint_name, parameters) ==
    IF parameters = <<>> THEN "GET" ELSE "POST"

\* _guess_http_method (lines 172-199)
_guess_http_method(endpoint_name, parameters) ==
    LET endpoint_lower == Lower(endpoint_name)
    IN  IF ContainsAny(endpoint_lower, SetOf(get_patterns)) THEN "GET"
        ELSE IF ContainsAny(endpoint_lower, SetOf(post_patterns)) THEN "POST"
        ELSE "POST"

\* inputs: the names of action methods and their parameter lists
EndpointNames ==
    ActionNames \cup {"setStatus", "delList", "showAdd", "fetch", "saveInfo",
                      "overview", "createExport", "toggle", "update", "reset",
                      "searchTargets", "ping", "reboot"}

ParameterLists == {<<>>, <<"uuid">>}

\* the controllers of two generate calls on one generator
RegenControllers ==
    {ApiController("Firewall", "Alias", <<ApiEndpoint("get", "GET", "")>>, None),
     ApiController("Firewall", "Alias", <<ApiEndpoint("set", "POST", "")>>, None),
     ApiController("Core", "Service", <<ApiEndpoint("reconfigure", "POST", "")>>, None)}

RegenLists == SeqsUpTo(RegenControllers, MaxControllers)

---------------------------------------------------------------------------
(* Inputs of APIWrapper and OPNsenseClient *)

\* documents OpenApiGenerator writes for one controller with one endpoint
WrapperEndpoints ==
    {ApiEndpoint("get", "GET", "Retrieve the settings. Cached."),
     ApiEndpoint("set", "POST", ""),
     ApiEndpoint("reconfigure", "POST", ""),
     ApiEndpoint("getItem", "GET", "")}

GeneratedDocs ==
    {generate(<<ApiController("Firewall", "Alias", <<e>>, None)>>, "24.7.1", dir) :
        e \in WrapperEndpoints, dir \in PathModelDirs}

\* documents of other origin: one operation whose request schema refers
\* to the component schemas
RefDoc(component_schemas, request_schema) ==
    [paths |->
        Dict1("/items",
              Dict1("post", [operationId |-> "items",
                             requestBody |-> [content |-> JsonContent(request_schema)]])),
     components |-> [schemas |-> component_schemas]]

ChainSchemas ==
    [Item |-> [type |-> "object", required |-> <<"tag">>,
               properties |-> [tag |-> Ref("Tag")]],
     Tag |-> [type |-> "string", enum |-> <<"a", "b">>]]

SelfSchemas ==
    [Node |-> [type |-> "object", properties |-> [next |-> Ref("Node")]]]

MutualSchemas ==
    [Ping |-> [type |-> "array", items |-> Ref("Pong")],
     Pong |-> [type |-> "object", properties |-> [ping |-> Ref("Ping")]]]

DanglingSchemas ==
    [Item |-> [type |-> "object", properties |-> [tag |-> Ref("Missing")]]]

RefDocs ==
    {RefDoc(ChainSchemas, Ref("Item")), RefDoc(SelfSchemas, Ref("Node")),
     RefDoc(MutualSchemas, Ref("Ping")), RefDoc(DanglingSchemas, Ref("Item")),
     RefDoc(ChainSchemas, [type |-> "object", properties |-> [tag |-> Ref("Tag")]])}

\* documents whose operations declare a summary, a description, both or
\* neither
OperationVariants ==
    {[summary |-> "Get status"],
     [summary |-> "Get status", description |-> "Long text. More."],
     [description |-> "Returns the status. Cached."],
     [description |-> "No period"],
     [operationId |-> "status"]}

PathItems ==
    UNION {[verbs -> OperationVariants] : verbs \in (SUBSET {"get", "post"}) \ {{}}}

SummaryDocs ==
    {[paths |-> Dict1("/status", item), components |-> [schemas |-> EmptyDict]] :
        item \in PathItems}

WrapperDocs == GeneratedDocs \cup RefDocs \cup SummaryDocs

Bodies ==
    {None, EmptyDict,
     [alias |-> [enabled |-> PyStr("1")]],
     [alias |-> [enabled |-> PyInt(1)]],
     [alias |-> PyStr("x")],
     [tag |-> PyStr("a")],
     [tag |-> PyStr("z")]}

CallBodies == {None, [alias |-> [enabled |-> PyStr("1")]], [alias |-> PyStr("x")]}

PathTemplates(doc) == DOMAIN doc.paths \cup {"/api/missing"}

PathParams == {None, [uuid |-> "abc"]}

QueryParams == {None, [limit |-> "10"]}

\* the calls of a session on a wrapper that loaded doc: lookups with the
\* verb in either case, of paths and verbs the document has and has not
SessionMethods == {"GET", "get", "POST", "Post"}

SessionBodies == {None, [alias |-> PyStr("x")]}

SessionCalls(doc) ==
    {[name |-> "_get_operation", path_template |-> p, method |-> m] :
        p \in PathTemplates(doc), m \in SessionMethods}
    \cup {[name |-> "suggest_parameters", path_template |-> p, method |-> m] :
            p \in PathTemplates(doc), m \in {"GET", "post"}}
    \cup {[name |-> "validate_body", path_template |-> p, method |-> m, body |-> b] :
            p \in PathTemplates(doc), m \in HttpMethods, b \in SessionBodies}

\* the calls on a wrapper that loaded doc
WrapperCalls(doc) ==
    {[name |-> "validate_body", path_template |-> p, method |-> m, body |-> b] :
        p \in PathTemplates(doc), m \in HttpMethods, b \in Bodies}
    \cup {[name |-> "list_endpoints"]}
    \cup {[name |-> n, schema |-> Ref(c)] :
            n \in {"_resolve_refs"}, c \in DOMAIN doc.components.schemas}
    \cup {[name |-> "_build_sample_from_schema", schema |-> doc.components.schemas[c]] :
            c \in DOMAIN doc.components.schemas}
    \cup {[name |-> "call_endpoint", path_template |-> p, method |-> m, body |-> b,
           path_params |-> pp, query_params |-> q] :
            p \in DOMAIN doc.paths, m \in HttpMethods, b \in CallBodies,
            pp \in PathParams, q \in QueryParams}

\* inputs of SpecValidator: path items in the order the document holds
\* them
JsonResponses(schema) ==
    Dict1("200", [description |-> "Successful response",
                  content |-> JsonContent(schema)])

InfoSchema ==
    [type |-> "object", properties |-> [total |-> [type |-> "integer"]]]

CrawlItems ==
    {<<"/api/core/info", [get |-> [responses |-> JsonResponses(InfoSchema)]]>>,
     <<"/api/core/status",
       [get |-> [responses |-> Dict1("200", [description |-> "Successful response"])],
        post |-> [responses |-> JsonResponses(InfoSchema)]]>>,
     <<"/api/log/export",
       [get |-> [responses |->
                    Dict1("200", [content |-> Dict1("text/csv", EmptyDict)])]]>>,
     <<"/api/core/Reboot", [get |-> [responses |-> JsonResponses(InfoSchema)]]>>,
     <<"/api/alias/get/{uuid}",
       [get |-> [responses |-> JsonResponses(InfoSchema)]]>>,
     <<"/api/core/set", [post |-> [responses |-> JsonResponses(InfoSchema)]]>>}

\* the largest number of paths of a document
MaxPaths == 3

CrawlDocs ==
    {l \in SeqsUpTo(CrawlItems, MaxPaths) :
        \A i, j \in DOMAIN l : l[i][1] = l[j][1] => i = j}

\* the values of the argument max_endpoints
MaxEndpointsArgs == {0, 1, 2}

CrawlConnectError == [raise |-> "ConnectError", message |-> "Connection refused"]

\* what self.client._client.get(url) returns or raises
CrawlOutcomes ==
    {CrawlResponse(200, "application/json", "{\"total\":10}"),
     CrawlResponse(200, "application/json", "[]"),
     CrawlResponse(200, "application/json", "<html>"),
     CrawlResponse(200, "text/html", "{}"),
     CrawlResponse(404, "application/json", "{}"),
     CrawlConnectError}

ValidatorPackages == {"opnsense_api", "opnsense_openapi"}

\* inputs of the commands: what SourceDownloader.download returns or
\* raises
CliControllersPath(v) == "tmp/opnsense_source/" \o v \o "/src/opnsense/mvc/app/controllers"

CliDownloadOutcomes(v) ==
    {PyStr(CliControllersPath(v)),
     RuntimeError("Failed to download OPNsense " \o v),
     [raise |-> "ValueError", message |-> "Invalid version format: " \o v]}

CliVersions == {"24.7", "24.7.1"}

BaseUrl == "https://opnsense.local"

\* what the server answers
StatusCodes == {200, 404, 500}

ResponseTexts ==
    {"{\"result\": \"saved\"}", "<html>Error</html>", "", "[]", "{\"total\":10,\"ok\":true}"}

Responses == {Response(c, t) : c \in StatusCodes, t \in ResponseTexts}

ClientCalls ==
    {[name |-> "get", module |-> "firewall", controller |-> "alias",
      command |-> c, params |-> ps] :
        c \in {"get", "searchItem"}, ps \in {<<>>, <<"abc">>}}
    \cup {[name |-> "post", module |-> "firewall", controller |-> "alias",
           command |-> c, params |-> ps, json |-> j] :
            c \in {"set", "reconfigure"}, ps \in {<<>>, <<"abc">>},
            j \in {None, EmptyDict, [alias |-> [enabled |-> PyStr("1")]]}}

---------------------------------------------------------------------------
(* Specifications *)

AnalyzerIdle ==
    /\ method_body = <<>>
    /\ file_content = EmptyDict
    /\ inferred = None
    /\ an_pc = "idle"

MergeIdle ==
    /\ schemas = <<>>
    /\ merged = None
    /\ merge_pc = "idle"

ConvertIdle ==
    /\ default_str = ""
    /\ json_type = "string"
    /\ converted = None
    /\ conv_pc = "idle"

SchemaIdle ==
    /\ model_fields = EmptyDict
    /\ json_schema = None
    /\ schema_pc = "idle"

\* OpenApiGenerator.__init__ (lines 50-59); no generate call is pending
GenIdle ==
    /\ controllers = <<>>
    /\ version = ""
    /\ models_dir = None
    /\ spec = EmptyDict
    /\ output_files = EmptyDict
    /\ gen_pc = "idle"
    /\ later_calls = <<>>
    /\ written = <<>>

SpecsIdle ==
    /\ specs_dir = {}
    /\ specs_call = ""
    /\ requested = ""
    /\ spec_file = None
    /\ specs_pc = "idle"

\* no document is loaded
WrapperIdle ==
    /\ self_api_spec = EmptyDict
    /\ _operation_cache = EmptyDict
    /\ wrapper_call = None
    /\ request_url = ""
    /\ http_requests = <<>>
    /\ resp = None
    /\ wrapper_result = None
    /\ wrapper_pc = "idle"

ClientIdle ==
    /\ client_call = None
    /\ client_response = None
    /\ client_result = None
    /\ client_pc = "idle"

DownloadIdle ==
    /\ cache_dir = EmptyDict
    /\ repository = EmptyDict
    /\ download_call = None
    /\ clones = <<>>
    /\ download_result = None
    /\ download_pc = "idle"

GuessIdle ==
    /\ guess_name = ""
    /\ guess_parameters = <<>>
    /\ guessed = ""
    /\ guess_pc = "idle"

InferIdle ==
    /\ infer_file = EmptyDict
    /\ call_stack = <<>>
    /\ trace_var = None
    /\ trace_stack = <<>>
    /\ infer_result = None
    /\ infer_pc = "idle"

FieldIdle ==
    /\ element = EmptyDict
    /\ parsed_field = None
    /\ field_schema = None
    /\ field_pc = "idle"

EnumIdle ==
    /\ enum_dir = None
    /\ option_elem = EmptyDict
    /\ option_prop = None
    /\ enum_pc = "idle"

CrawlIdle ==
    /\ validator_package = ""
    /\ crawl_paths = <<>>
    /\ max_endpoints = 0
    /\ path_index = 0
    /\ endpoint_count = 0
    /\ crawl_requests = <<>>
    /\ crawl_results = <<>>
    /\ crawl_pc = "idle"

CliIdle ==
    /\ cli_command = ""
    /\ cli_version = ""
    /\ cli_models_dir = None
    /\ controllers_path = None
    /\ cli_controllers = <<>>
    /\ output_file = None
    /\ exit_code = -1
    /\ cli_pc = "idle"

LateIdle == InferIdle /\ FieldIdle /\ EnumIdle /\ CrawlIdle /\ CliIdle

EarlyToolsIdle ==
    SpecsIdle /\ WrapperIdle /\ ClientIdle /\ DownloadIdle /\ GuessIdle

ToolsIdle == EarlyToolsIdle /\ LateIdle

ParserIdle == MergeIdle /\ AnalyzerIdle /\ ConvertIdle /\ SchemaIdle

NotSpecsIdle ==
    ParserIdle /\ GenIdle /\ WrapperIdle /\ ClientIdle /\ DownloadIdle /\ GuessIdle
    /\ LateIdle

NotWrapperIdle ==
    ParserIdle /\ GenIdle /\ SpecsIdle /\ ClientIdle /\ DownloadIdle /\ GuessIdle
    /\ LateIdle

NotClientIdle ==
    ParserIdle /\ GenIdle /\ SpecsIdle /\ WrapperIdle /\ DownloadIdle /\ GuessIdle
    /\ LateIdle

NotDownloadIdle ==
    ParserIdle /\ GenIdle /\ SpecsIdle /\ WrapperIdle /\ ClientIdle /\ GuessIdle
    /\ LateIdle

NotGuessIdle ==
    ParserIdle /\ GenIdle /\ SpecsIdle /\ WrapperIdle /\ ClientIdle /\ DownloadIdle
    /\ LateIdle

NotInferIdle == ParserIdle /\ GenIdle /\ EarlyToolsIdle /\ FieldIdle
    /\ EnumIdle /\ CrawlIdle /\ CliIdle

NotFieldIdle == ParserIdle /\ GenIdle /\ EarlyToolsIdle /\ InferIdle
    /\ EnumIdle /\ CrawlIdle /\ CliIdle

NotEnumIdle == ParserIdle /\ GenIdle /\ EarlyToolsIdle /\ InferIdle
    /\ FieldIdle /\ CrawlIdle /\ CliIdle

NotCrawlIdle == ParserIdle /\ GenIdle /\ EarlyToolsIdle /\ InferIdle
    /\ FieldIdle /\ EnumIdle /\ CliIdle

NotCliIdle == ParserIdle /\ GenIdle /\ EarlyToolsIdle /\ InferIdle /\
    FieldIdle /\ EnumIdle /\ CrawlIdle

(* _merge_schemas applied to a list of branch schemas *)
InitMerge ==
    /\ schemas \in SeqsUpTo(BranchSchemas, MaxBranches)
    /\ merged = None
    /\ merge_pc = "call"
    /\ AnalyzerIdle /\ ConvertIdle /\ SchemaIdle /\ GenIdle /\ ToolsIdle

MergeSchemas ==
    /\ merge_pc = "call"
    /\ merged' = _merge_schemas(schemas)
    /\ merge_pc' = "done"
    /\ UNCHANGED <<schemas, analyze_vars, convert_vars, schema_vars, gen_vars,
                   tool_vars>>

NextMerge == MergeSchemas

SpecMerge == InitMerge /\ [][NextMerge]_vars

(* infer_response_schema on the method testAction of a file: the body is  *)
(* extracted and _analyze_returns runs on it at depth 0 (lines 189-200)   *)
InitAnalyze ==
    /\ method_body \in SeqsUpTo(Statements, MaxStmts)
    /\ \E helper \in HelperBodies : file_content = FileOf(method_body, helper)
    /\ inferred = None
    /\ an_pc = "call"
    /\ MergeIdle /\ ConvertIdle /\ SchemaIdle /\ GenIdle /\ ToolsIdle

AnalyzeReturns ==
    /\ an_pc = "call"
    /\ inferred' = (IF method_body = <<>> THEN None
                    ELSE _analyze_returns(method_body, file_content, 0))
    /\ an_pc' = "done"
    /\ UNCHANGED <<method_body, file_content, merge_vars, convert_vars, schema_vars,
                   gen_vars, tool_vars>>

NextAnalyze == AnalyzeReturns

SpecAnalyze == InitAnalyze /\ [][NextAnalyze]_vars

(* _convert_default_value applied to a raw default and a JSON type *)
InitConvert ==
    /\ default_str \in DefaultStrings
    /\ json_type \in JsonTypes
    /\ converted = None
    /\ conv_pc = "call"
    /\ MergeIdle /\ AnalyzerIdle /\ SchemaIdle /\ GenIdle /\ ToolsIdle

ConvertDefaultValue ==
    /\ conv_pc = "call"
    /\ converted' = _convert_default_value(default_str, json_type)
    /\ conv_pc' = "done"
    /\ UNCHANGED <<default_str, json_type, merge_vars, analyze_vars, schema_vars,
                   gen_vars, tool_vars>>

NextConvert == ConvertDefaultValue

SpecConvert == InitConvert /\ [][NextConvert]_vars

(* to_json_schema(model) on the container "root" of a model *)
InitSchema ==
    /\ model_fields \in
          {EmptyDict} \cup {[root |-> l] : l \in SeqsUpTo(ModelFields, MaxFields)}
    /\ json_schema = None
    /\ schema_pc = "call"
    /\ MergeIdle /\ AnalyzerIdle /\ ConvertIdle /\ GenIdle /\ ToolsIdle

ToJsonSchema ==
    /\ schema_pc = "call"
    /\ json_schema' = to_json_schema(model_fields, "root")
    /\ schema_pc' = "done"
    /\ UNCHANGED <<model_fields, merge_vars, analyze_vars, convert_vars, gen_vars,
                   tool_vars>>

NextSchema == ToJsonSchema

SpecSchema == InitSchema /\ [][NextSchema]_vars

(* generate(controllers, version, models_dir) on a new generator: the     *)
(* document is built in self.spec and written to output_dir               *)
Generate ==
    /\ gen_pc = "call"
    /\ spec' = generate_on(spec, controllers, version, models_dir)
    /\ output_files' = DictSet(output_files, OutputPath(version), spec')
    /\ written' = Append(written, [controllers |-> controllers, document |-> spec'])
    /\ IF later_calls = <<>>
       THEN gen_pc' = "done" /\ UNCHANGED <<controllers, later_calls>>
       ELSE /\ gen_pc' = "call"
            /\ controllers' = Head(later_calls)
            /\ later_calls' = Tail(later_calls)
    /\ UNCHANGED <<version, models_dir, parser_vars, tool_vars>>

NextGen == Generate

\* one controller with one endpoint, over all action names
InitPath ==
    /\ \E c \in PathControllers : controllers = <<c>>
    /\ version \in Versions
    /\ models_dir \in PathModelDirs
    /\ spec = EmptyDict
    /\ output_files = EmptyDict
    /\ gen_pc = "call"
    /\ later_calls = <<>>
    /\ written = <<>>
    /\ ParserIdle /\ ToolsIdle

SpecPath == InitPath /\ [][NextGen]_vars

\* several controllers whose names meet in the lower-cased path
InitGen ==
    /\ controllers \in SeqsUpTo(GenControllers, MaxControllers)
    /\ version \in Versions
    /\ models_dir \in GenModelDirs
    /\ spec = EmptyDict
    /\ output_files = EmptyDict
    /\ gen_pc = "call"
    /\ later_calls = <<>>
    /\ written = <<>>
    /\ ParserIdle /\ ToolsIdle

SpecGen == InitGen /\ [][NextGen]_vars

(* get_spec_path or find_best_matching_spec on a specs directory *)
InitSpecs ==
    /\ specs_dir \in SpecsDirs
    /\ specs_call \in SpecsCalls
    /\ requested \in RequestedVersions
    /\ spec_file = None
    /\ specs_pc = "call"
    /\ NotSpecsIdle

GetSpecPath ==
    /\ specs_pc = "call"
    /\ specs_call = "get_spec_path"
    /\ spec_file' = get_spec_path(specs_dir, requested)
    /\ specs_pc' = "done"
    /\ UNCHANGED <<specs_dir, specs_call, requested, not_specs_vars>>

FindBestMatchingSpec ==
    /\ specs_pc = "call"
    /\ specs_call = "find_best_matching_spec"
    /\ spec_file' = find_best_matching_spec(specs_dir, requested)
    /\ specs_pc' = "done"
    /\ UNCHANGED <<specs_dir, specs_call, requested, not_specs_vars>>

NextSpecs == GetSpecPath \/ FindBestMatchingSpec

SpecSpecs == InitSpecs /\ [][NextSpecs]_vars

(* a call on an APIWrapper that loaded a document; call_endpoint runs in   *)
(* the steps validate, format, request, status, parse                      *)
InitWrapper ==
    /\ self_api_spec \in WrapperDocs
    /\ _operation_cache = EmptyDict
    /\ wrapper_call \in WrapperCalls(self_api_spec)
    /\ request_url = ""
    /\ http_requests = <<>>
    /\ resp = None
    /\ wrapper_result = None
    /\ wrapper_pc = IF wrapper_call.name = "call_endpoint" THEN "validate" ELSE "call"
    /\ NotWrapperIdle

ValidateBody ==
    /\ wrapper_pc = "call"
    /\ wrapper_call.name = "validate_body"
    /\ wrapper_result' = validate_body(self_api_spec, _operation_cache,
                                       wrapper_call.path_template, wrapper_call.method,
                                       wrapper_call.body)
    /\ _operation_cache' =
          IF wrapper_call.body = None THEN _operation_cache
          ELSE CacheAfter(self_api_spec, _operation_cache, wrapper_call.path_template,
                          wrapper_call.method)
    /\ wrapper_pc' = "done"
    /\ UNCHANGED <<self_api_spec, wrapper_call, request_url, http_requests, resp,
                   not_wrapper_vars>>

ListEndpoints ==
    /\ wrapper_pc = "call"
    /\ wrapper_call.name = "list_endpoints"
    /\ wrapper_result' = PyList(list_endpoints(self_api_spec))
    /\ wrapper_pc' = "done"
    /\ UNCHANGED <<self_api_spec, _operation_cache, wrapper_call, request_url,
                   http_requests, resp, not_wrapper_vars>>

ResolveRefs ==
    /\ wrapper_pc = "call"
    /\ wrapper_call.name = "_resolve_refs"
    /\ wrapper_result' = _resolve_refs(self_api_spec, wrapper_call.schema, 0)
    /\ wrapper_pc' = "done"
    /\ UNCHANGED <<self_api_spec, _operation_cache, wrapper_call, request_url,
                   http_requests, resp, not_wrapper_vars>>

BuildSampleFromSchema ==
    /\ wrapper_pc = "call"
    /\ wrapper_call.name = "_build_sample_from_schema"
    /\ wrapper_result' = _build_sample_from_schema(self_api_spec, wrapper_call.schema)
    /\ wrapper_pc' = "done"
    /\ UNCHANGED <<self_api_spec, _operation_cache, wrapper_call, request_url,
                   http_requests, resp, not_wrapper_vars>>

\* lines 398-403
CallValidate ==
    /\ wrapper_pc = "validate"
    /\ LET valid == validate_body(self_api_spec, _operation_cache,
                                  wrapper_call.path_template,
                                  Upper(wrapper_call.method), wrapper_call.body)
       IN  IF Raised(valid)
           THEN wrapper_result' = valid /\ wrapper_pc' = "raised"
           ELSE /\ wrapper_pc' = after_validate(valid)
                /\ wrapper_result' =
                      IF wrapper_pc' = "raised"
                      THEN [raise |-> "ValueError",
                            message |-> "Request body validation failed."]
                      ELSE wrapper_result
    /\ _operation_cache' =
          IF wrapper_call.body = None THEN _operation_cache
          ELSE CacheAfter(self_api_spec, _operation_cache, wrapper_call.path_template,
                          wrapper_call.method)
    /\ UNCHANGED <<self_api_spec, wrapper_call, request_url, http_requests, resp,
                   not_wrapper_vars>>

\* lines 405-418
CallFormat ==
    /\ wrapper_pc = "format"
    /\ request_url' = RequestUrl(BaseUrl, base_api_path(self_api_spec),
                                 wrapper_call.path_template, wrapper_call.path_params,
                                 wrapper_call.query_params)
    /\ wrapper_pc' = "request"
    /\ UNCHANGED <<self_api_spec, _operation_cache, wrapper_call, http_requests, resp,
                   wrapper_result, not_wrapper_vars>>

\* lines 421-423: the request is sent; the server answers, or the
\* connection fails
CallRequest ==
    /\ wrapper_pc = "request"
    /\ http_requests' = Append(http_requests,
                               [method |-> Upper(wrapper_call.method),
                                url |-> request_url, json |-> wrapper_call.body])
    /\ \/ /\ resp' \in Responses
          /\ wrapper_pc' = "status"
          /\ UNCHANGED wrapper_result
       \/ /\ wrapper_result' = ConnectError
          /\ wrapper_pc' = "raised"
          /\ UNCHANGED resp
    /\ UNCHANGED <<self_api_spec, _operation_cache, wrapper_call, request_url,
                   not_wrapper_vars>>

\* line 425: resp.raise_for_status()
CallRaiseForStatus ==
    /\ wrapper_pc = "status"
    /\ IF is_success(resp)
       THEN wrapper_pc' = "parse" /\ UNCHANGED wrapper_result
       ELSE wrapper_pc' = "raised" /\ wrapper_result' = HTTPStatusError
    /\ UNCHANGED <<self_api_spec, _operation_cache, wrapper_call, request_url,
                   http_requests, resp, not_wrapper_vars>>

\* lines 427-432
CallParse ==
    /\ wrapper_pc = "parse"
    /\ wrapper_result' = ParsedOrText(resp)
    /\ wrapper_pc' = "done"
    /\ UNCHANGED <<self_api_spec, _operation_cache, wrapper_call, request_url,
                   http_requests, resp, not_wrapper_vars>>

NextWrapper ==
    \/ ValidateBody
    \/ ListEndpoints
    \/ ResolveRefs
    \/ BuildSampleFromSchema
    \/ CallValidate
    \/ CallFormat
    \/ CallRequest
    \/ CallRaiseForStatus
    \/ CallParse

SpecWrapper == InitWrapper /\ [][NextWrapper]_vars

(* a session: calls that follow one another on one APIWrapper, which      *)
(* keeps self._operation_cache from call to call                          *)
InitSession ==
    /\ self_api_spec \in WrapperDocs
    /\ _operation_cache = EmptyDict
    /\ wrapper_call \in SessionCalls(self_api_spec)
    /\ request_url = ""
    /\ http_requests = <<>>
    /\ resp = None
    /\ wrapper_result = None
    /\ wrapper_pc = "call"
    /\ NotWrapperIdle

GetOperation ==
    /\ wrapper_pc = "call"
    /\ wrapper_call.name = "_get_operation"
    /\ wrapper_result' = _get_operation(self_api_spec, _operation_cache,
                                        wrapper_call.path_template, wrapper_call.method)
    /\ _operation_cache' = CacheAfter(self_api_spec, _operation_cache,
                                      wrapper_call.path_template, wrapper_call.method)
    /\ wrapper_pc' = "done"
    /\ UNCHANGED <<self_api_spec, wrapper_call, request_url, http_requests, resp,
                   not_wrapper_vars>>

\* the three lookups of suggest_parameters have one key
SuggestParameters ==
    /\ wrapper_pc = "call"
    /\ wrapper_call.name = "suggest_parameters"
    /\ wrapper_result' = suggest_parameters(self_api_spec, _operation_cache,
                                            wrapper_call.path_template,
                                            wrapper_call.method)
    /\ _operation_cache' = CacheAfter(self_api_spec, _operation_cache,
                                      wrapper_call.path_template,
                                      Upper(wrapper_call.method))
    /\ wrapper_pc' = "done"
    /\ UNCHANGED <<self_api_spec, wrapper_call, request_url, http_requests, resp,
                   not_wrapper_vars>>

\* the caller makes the next call on the same wrapper
NextCall ==
    /\ wrapper_pc = "done"
    /\ wrapper_call' \in SessionCalls(self_api_spec)
    /\ wrapper_pc' = "call"
    /\ UNCHANGED <<self_api_spec, _operation_cache, wrapper_result, request_url,
                   http_requests, resp, not_wrapper_vars>>

NextSession == GetOperation \/ SuggestParameters \/ ValidateBody \/ NextCall

SpecSession == InitSession /\ [][NextSession]_vars

(* OPNsenseClient.get and OPNsenseClient.post *)
InitClient ==
    /\ client_call \in ClientCalls
    /\ client_response = None
    /\ client_result = None
    /\ client_pc = "call"
    /\ NotClientIdle

ClientGet ==
    /\ client_pc = "call"
    /\ client_call.name = "get"
    /\ client_response' \in Responses
    /\ client_result' = get(client_response')
    /\ client_pc' = "done"
    /\ UNCHANGED <<client_call, not_client_vars>>

ClientPost ==
    /\ client_pc = "call"
    /\ client_call.name = "post"
    /\ client_response' \in Responses
    /\ client_result' = post(client_call.json, client_response')
    /\ client_pc' = "done"
    /\ UNCHANGED <<client_call, not_client_vars>>

NextClient == ClientGet \/ ClientPost

SpecClient == InitClient /\ [][NextClient]_vars

(* SourceDownloader.download *)
InitDownload ==
    /\ cache_dir \in CacheDirs
    /\ repository \in Remotes
    /\ download_call \in [version : DownloadVersions, force : BOOLEAN]
    /\ clones = <<>>
    /\ download_result = None
    /\ download_pc = "call"
    /\ NotDownloadIdle

Download ==
    /\ download_pc = "call"
    /\ LET outcome == download(cache_dir, repository, download_call.version,
                               download_call.force)
       IN  /\ download_result' = outcome.result
           /\ cache_dir' = outcome.cache_dir
           /\ clones' = clones \o outcome.clones
    /\ download_pc' = "done"
    /\ UNCHANGED <<repository, download_call, not_download_vars>>

NextDownload == Download

SpecDownload == InitDownload /\ [][NextDownload]_vars

(* ControllerParser._guess_http_method *)
InitGuess ==
    /\ guess_name \in EndpointNames
    /\ guess_parameters \in ParameterLists
    /\ guessed = ""
    /\ guess_pc = "call"
    /\ NotGuessIdle

GuessHttpMethod ==
    /\ guess_pc = "call"
    /\ guessed' = _guess_http_method(guess_name, guess_parameters)
    /\ guess_pc' = "done"
    /\ UNCHANGED <<guess_name, guess_parameters, not_guess_vars>>

NextGuess == GuessHttpMethod

SpecGuess == InitGuess /\ [][NextGuess]_vars

\* two generate calls on one generator: the controllers of the first and
\* of the second call
InitRegen ==
    /\ controllers \in RegenLists
    /\ later_calls \in {<<l>> : l \in RegenLists}
    /\ version \in Versions
    /\ models_dir \in PathModelDirs
    /\ spec = EmptyDict
    /\ output_files = EmptyDict
    /\ written = <<>>
    /\ gen_pc = "call"
    /\ ParserIdle /\ ToolsIdle

SpecRegen == InitRegen /\ [][NextGen]_vars

(* infer_response_schema on the method testAction, call by call *)
InitInfer ==
    /\ infer_file \in InferFiles
    /\ call_stack = <<>>
    /\ trace_var = None
    /\ trace_stack = <<>>
    /\ infer_result = None
    /\ infer_pc = "call"
    /\ NotInferIdle

\* infer_response_schema (lines 171-200): the body is extracted and
\* _analyze_returns is called at depth 0
InferResponseSchema ==
    /\ infer_pc = "call"
    /\ LET body == _extract_method_body(infer_file, "testAction")
       IN  IF body = <<>>
           THEN /\ infer_result' = None
                /\ infer_pc' = "done"
                /\ UNCHANGED call_stack
           ELSE /\ call_stack' = <<Frame(body)>>
                /\ infer_pc' = "run"
                /\ UNCHANGED infer_result
    /\ UNCHANGED <<infer_file, trace_var, trace_stack, not_infer_vars>>

\* the head of the loop over returns (lines 262-271): the next return is
\* taken; one that starts with "$" is handed to _trace_variable
TakeReturn ==
    /\ infer_pc = "run"
    /\ Last(call_stack).phase = "next"
    /\ Last(call_stack).i <= Len(ReturnsOf(Last(call_stack).body))
    /\ LET top == Last(call_stack)
           original == ReturnsOf(top.body)[top.i]
       IN  IF StartsWithDollar(original)
           THEN /\ call_stack' = [call_stack EXCEPT ![Len(call_stack)] =
                      [top EXCEPT !.original = original, !.expr = original,
                                  !.phase = "trace"]]
                /\ trace_var' = original
           ELSE /\ call_stack' = [call_stack EXCEPT ![Len(call_stack)] =
                      [top EXCEPT !.original = original, !.expr = original,
                                  !.phase = "base"]]
                /\ trace_var' = None
    /\ trace_stack' = <<>>
    /\ UNCHANGED <<infer_file, infer_result, infer_pc, not_infer_vars>>

\* one call of _trace_variable (lines 838-880) at depth Len(trace_stack):
\* it gives up, finds no assignment, finds one that is no variable, or
\* finds a variable and calls itself; when it does not call itself every
\* running call returns ("if traced: return traced", "return assignment")
\* and the return expression is the assignment found last, if any
TraceVariable ==
    /\ infer_pc = "run"
    /\ Last(call_stack).phase = "trace"
    /\ LET top == Last(call_stack)
           matches == TraceMatches(top.body, trace_var)
           found == ~max_depth_reached(Len(trace_stack)) /\ Len(matches) > 0
           assignment == Last(matches).rhs
           assignments == IF found THEN Append(trace_stack, assignment)
                          ELSE trace_stack
       IN  /\ trace_stack' = assignments
           /\ IF found /\ StartsWithDollar(assignment)
              THEN /\ trace_var' = LeadingVar(assignment)
                   /\ UNCHANGED call_stack
              ELSE /\ trace_var' = None
                   /\ call_stack' = [call_stack EXCEPT ![Len(call_stack)] =
                         [top EXCEPT !.expr = IF assignments # <<>>
                                              THEN Last(assignments)
                                              ELSE top.original,
                                     !.phase = "base"]]
    /\ UNCHANGED <<infer_file, infer_result, infer_pc, not_infer_vars>>

\* lines 273-276: a base method call ends the running _analyze_returns
\* call with the base schema
MatchBaseMethod ==
    /\ infer_pc = "run"
    /\ Last(call_stack).phase = "base"
    /\ LET top == Last(call_stack)
           schema == _match_base_method(top.expr)
       IN  IF schema = None
           THEN /\ call_stack' = [call_stack EXCEPT ![Len(call_stack)] =
                      [top EXCEPT !.phase = "resolve"]]
                /\ UNCHANGED <<infer_result, infer_pc>>
           ELSE /\ call_stack' = AfterReturn(call_stack, schema)
                /\ IF Len(call_stack) = 1
                   THEN infer_result' = schema /\ infer_pc' = "done"
                   ELSE UNCHANGED <<infer_result, infer_pc>>
    /\ UNCHANGED <<infer_file, trace_var, trace_stack, not_infer_vars>>

\* lines 278-283 and _resolve_method_call (lines 337-365): below max_depth
\* a call of a method of the file runs _analyze_returns on its body
ResolveMethodCall ==
    /\ infer_pc = "run"
    /\ Last(call_stack).phase = "resolve"
    /\ LET top == Last(call_stack)
           depth == Len(call_stack) - 1
           called_method_body ==
               IF top.expr.kind \in {"call", "base"}
               THEN _extract_method_body(infer_file, top.expr.name)
               ELSE <<>>
       IN  IF depth < MethodMaxDepth /\ called_method_body # <<>>
           THEN call_stack' =
                   Append([call_stack EXCEPT ![Len(call_stack)] =
                              [top EXCEPT !.phase = "resolving"]],
                          Frame(called_method_body))
           ELSE call_stack' = [call_stack EXCEPT ![Len(call_stack)] =
                                  [top EXCEPT !.phase = "rules"]]
    /\ UNCHANGED <<infer_file, trace_var, trace_stack, infer_result, infer_pc,
                   not_infer_vars>>

\* lines 285-313: the pattern rules; a schema found is appended
MatchPatterns ==
    /\ infer_pc = "run"
    /\ Last(call_stack).phase = "rules"
    /\ LET top == Last(call_stack)
           schema == PatternSchema(top.body, top.original, top.expr)
       IN  call_stack' = [call_stack EXCEPT ![Len(call_stack)] =
               [top EXCEPT !.acc = IF schema # None THEN Append(@, schema) ELSE @,
                           !.i = @ + 1, !.phase = "next"]]
    /\ UNCHANGED <<infer_file, trace_var, trace_stack, infer_result, infer_pc,
                   not_infer_vars>>

\* lines 255-256 and 315-319: no return is left; the call returns the
\* merged schemas, or None
ReturnMerged ==
    /\ infer_pc = "run"
    /\ Last(call_stack).phase = "next"
    /\ Last(call_stack).i > Len(ReturnsOf(Last(call_stack).body))
    /\ LET top == Last(call_stack)
           schema == IF Len(top.acc) > 0 THEN _merge_schemas(top.acc) ELSE None
       IN  /\ call_stack' = AfterReturn(call_stack, schema)
           /\ IF Len(call_stack) = 1
              THEN infer_result' = schema /\ infer_pc' = "done"
              ELSE UNCHANGED <<infer_result, infer_pc>>
    /\ UNCHANGED <<infer_file, trace_var, trace_stack, not_infer_vars>>

NextInfer ==
    \/ InferResponseSchema
    \/ TakeReturn
    \/ TraceVariable
    \/ MatchBaseMethod
    \/ ResolveMethodCall
    \/ MatchPatterns
    \/ ReturnMerged

SpecInfer == InitInfer /\ [][NextInfer]_vars

\* the interpreter runs the next step of a call that has not returned
SpecInferFair == SpecInfer /\ WF_vars(NextInfer)

(* _parse_items on one field element (lines 113-123), then to_json_schema *)
(* on the container "root" of the model                                   *)
InitField ==
    /\ element \in FieldElements
    /\ parsed_field = None
    /\ field_schema = None
    /\ field_pc = "call"
    /\ NotFieldIdle

ParseField ==
    /\ field_pc = "call"
    /\ parsed_field' = _parse_field(element, element.tag, element.type)
    /\ field_pc' = "parsed"
    /\ UNCHANGED <<element, field_schema, not_field_vars>>

FieldToJsonSchema ==
    /\ field_pc = "parsed"
    /\ field_schema' = to_json_schema([root |-> <<parsed_field>>], "root")
    /\ field_pc' = "done"
    /\ UNCHANGED <<element, parsed_field, not_field_vars>>

NextField == ParseField \/ FieldToJsonSchema

SpecField == InitField /\ [][NextField]_vars

(* _parse_model_nodes on a parent whose only child is an OptionField *)
InitEnum ==
    /\ enum_dir \in EnumDirs
    /\ option_elem \in OptionElements
    /\ option_prop = None
    /\ enum_pc = "call"
    /\ NotEnumIdle

ParseOptionField ==
    /\ enum_pc = "call"
    /\ option_prop' = option_field_property(enum_dir, option_elem)
    /\ enum_pc' = "done"
    /\ UNCHANGED <<enum_dir, option_elem, not_enum_vars>>

NextEnum == ParseOptionField

SpecEnum == InitEnum /\ [][NextEnum]_vars

(* SpecValidator.validate_endpoints, one iteration of "for path, methods  *)
(* in paths.items()" at a time; the caller takes every result yielded     *)
InitCrawl ==
    /\ validator_package \in ValidatorPackages
    /\ crawl_paths \in CrawlDocs
    /\ max_endpoints \in MaxEndpointsArgs
    /\ path_index = 1
    /\ endpoint_count = 0
    /\ crawl_requests = <<>>
    /\ crawl_results = <<>>
    /\ crawl_pc = "loop"
    /\ NotCrawlIdle

\* the loop has ended, or lines 52-53 break out of it
CrawlEnd ==
    /\ crawl_pc = "loop"
    /\ path_index > Len(crawl_paths) \/ endpoint_count >= max_endpoints
    /\ crawl_pc' = "done"
    /\ UNCHANGED <<validator_package, crawl_paths, max_endpoints, path_index,
                   endpoint_count, crawl_requests, crawl_results, not_crawl_vars>>

\* lines 56-65: continue
CrawlSkip ==
    /\ crawl_pc = "loop"
    /\ path_index <= Len(crawl_paths) /\ endpoint_count < max_endpoints
    /\ ~Crawled(crawl_paths[path_index][1], crawl_paths[path_index][2])
    /\ path_index' = path_index + 1
    /\ UNCHANGED <<validator_package, crawl_paths, max_endpoints, endpoint_count,
                   crawl_requests, crawl_results, crawl_pc, not_crawl_vars>>

\* lines 67-119: the request is sent and the result yielded
CrawlEndpoint ==
    /\ crawl_pc = "loop"
    /\ path_index <= Len(crawl_paths) /\ endpoint_count < max_endpoints
    /\ Crawled(crawl_paths[path_index][1], crawl_paths[path_index][2])
    /\ endpoint_count' = endpoint_count + 1
    /\ \E response \in CrawlOutcomes :
          /\ crawl_requests' =
                Append(crawl_requests,
                       [method |-> "GET",
                        url |-> BaseUrl \o crawl_paths[path_index][1],
                        response |-> response])
          /\ crawl_results' =
                Append(crawl_results,
                       EndpointResult(validator_package, crawl_paths[path_index][1],
                                      crawl_paths[path_index][2], response))
    /\ path_index' = path_index + 1
    /\ UNCHANGED <<validator_package, crawl_paths, max_endpoints, crawl_pc,
                   not_crawl_vars>>

NextCrawl == CrawlEnd \/ CrawlSkip \/ CrawlEndpoint

SpecCrawl == InitCrawl /\ [][NextCrawl]_vars

(* the commands download and generate of cli.py, step by step; models_dir *)
(* is the directory models beside the controllers, None when it does not  *)
(* exist                                                                   *)
InitCli ==
    /\ cli_command \in {"download", "generate"}
    /\ cli_version \in CliVersions
    /\ cli_models_dir \in PathModelDirs
    /\ controllers_path = None
    /\ cli_controllers = <<>>
    /\ output_file = None
    /\ exit_code = -1
    /\ cli_pc = "download"
    /\ NotCliIdle

\* lines 62-72 and 106-114: RuntimeError is caught and typer.Exit(code=1)
\* raised; another exception leaves the command
CliDownload ==
    /\ cli_pc = "download"
    /\ \E outcome \in CliDownloadOutcomes(cli_version) :
          /\ controllers_path' = outcome
          /\ IF Raised(outcome)
             THEN exit_code' = 1 /\ cli_pc' = "exit"
             ELSE IF cli_command = "download"
                  THEN exit_code' = ExitCodeOf(None) /\ cli_pc' = "exit"
                  ELSE exit_code' = exit_code /\ cli_pc' = "parse"
    /\ UNCHANGED <<cli_command, cli_version, cli_models_dir, cli_controllers,
                   output_file, not_cli_vars>>

\* lines 123-127: parser.parse_directory(controllers_path)
CliParse ==
    /\ cli_pc = "parse"
    /\ cli_controllers' \in RegenLists
    /\ cli_pc' = "generate"
    /\ UNCHANGED <<cli_command, cli_version, cli_models_dir, controllers_path,
                   output_file, exit_code, not_cli_vars>>

\* lines 129-147: generator.generate(controllers, version,
\* models_dir=valid_models_path, controllers_dir=controllers_path)
CliGenerate ==
    /\ cli_pc = "generate"
    /\ LET bound == BindArguments("OpenApiGenerator.generate", GenerateParameters,
                                  GeneratePositional, GenerateKeywords)
       IN  /\ output_file' =
                 IF Raised(bound) THEN output_file
                 ELSE [path |-> OutputPath(cli_version),
                       document |-> generate(cli_controllers, cli_version,
                                             cli_models_dir)]
           /\ exit_code' = ExitCodeOf(bound)
    /\ cli_pc' = "exit"
    /\ UNCHANGED <<cli_command, cli_version, cli_models_dir, controllers_path,
                   cli_controllers, not_cli_vars>>

NextCli == CliDownload \/ CliParse \/ CliGenerate

SpecCli == InitCli /\ [][NextCli]_vars

Init == InitGen

Next == NextGen

Spec == Init /\ [][Next]_vars

---------------------------------------------------------------------------
(* Claims *)

RequiredOf(s) == SetOf(Get(s, "required", <<>>))

IsObjectSchema(s) == Get(s, "type", None) = "object"

\* C1: for every list of N >= 2 object schemas the merged schema's required
\* set is exactly the intersection of the branches' required sets (a branch
\* without a required list counts as the empty set), in any branch order.
C1_RequiredIsIntersection ==
    (/\ merge_pc = "done"
     /\ Len(schemas) >= 2
     /\ \A i \in DOMAIN schemas : IsObjectSchema(schemas[i]))
    => RequiredOf(merged) =
         {n \in MergeNames : \A i \in DOMAIN schemas : n \in RequiredOf(schemas[i])}

\* C2: a method whose only return is a direct call of a base method is
\* inferred as that base method's fixed schema, whatever other statements
\* the body contains (searchBase: the pagination schema with required
\* rows, rowCount, total, current).
C2_OnlyBaseReturnYieldsBaseSchema ==
    (/\ an_pc = "done"
     /\ Len(ReturnsOf(method_body)) = 1
     /\ ReturnsOf(method_body)[1].kind = "base")
    => /\ inferred = BASE_METHOD_SCHEMAS[ReturnsOf(method_body)[1].name]
       /\ (ReturnsOf(method_body)[1].name = "searchBase"
            => RequiredOf(inferred) = {"rows", "rowCount", "total", "current"})

(* The operation written for the single endpoint of a single controller *)

PathDone ==
    /\ gen_pc = "done"
    /\ Len(controllers) = 1
    /\ Len(controllers[1].endpoints) = 1

PathAction == controllers[1].endpoints[1].name

PathMethod == controllers[1].endpoints[1].method

\* the controller identifier with the Controller suffix removed
CtrlName(c) ==
    IF EndsWith(c, "Controller") THEN SubSeq(c, 1, Len(c) - Len("Controller")) ELSE c

\* the operations of the written document
Operations(doc) ==
    UNION {{doc.paths[u][m] : m \in DOMAIN doc.paths[u]} : u \in DOMAIN doc.paths}

PathUrlWritten == CHOOSE u \in DOMAIN spec.paths : TRUE

PathOp == spec.paths[PathUrlWritten][Lower(PathMethod)]

\* the schema of the 200 response, None when the response has no content
SchemaOf200(op) ==
    IF "content" \in DOMAIN op.responses["200"]
    THEN op.responses["200"].content["application/json"].schema
    ELSE None

\* the name of the model schema of the controller, bound when it is a
\* component of the document
ModelSchemaName(c) == "OPNsense" \o c.module \o CtrlName(c.controller)

ModelBound(doc, c) == ModelSchemaName(c) \in DOMAIN doc.components.schemas

NamingCategories ==
    <<[tokens |-> {"start", "stop", "restart"}, schema |-> ServiceActionSchema],
      [tokens |-> {"reconfigure"}, schema |-> ReconfigureSchema],
      [tokens |-> {"status"}, schema |-> StatusSchema("")],
      [tokens |-> {"arp", "ndp", "log", "leases", "sessions", "states", "routes"},
       schema |-> DynamicArraySchema],
      [tokens |-> {"isenabled"}, schema |-> IsEnabledSchema],
      [tokens |-> {"stats", "info", "overview", "summary"},
       schema |-> DynamicObjectSchema("Statistics or information object")],
      [tokens |-> {"apply", "flush", "revert", "savepoint", "rollback", "upload",
                   "generate", "kill", "disconnect", "connect"},
       schema |-> Ref("StatusResponse")],
      [tokens |-> {"export", "download", "rawdump", "dump", "providers",
                   "accounts", "templates"},
       schema |-> DynamicObjectSchema("Export data or file content")],
      [tokens |-> {"list", "aliases", "countries", "groups", "users", "categories"},
       schema |-> DynamicObjectSchema("Object with dynamic keys or array of items")]>>

StatusIndex == CHOOSE i \in DOMAIN NamingCategories : NamingCategories[i].tokens = {"status"}

ArrayIndex == CHOOSE i \in DOMAIN NamingCategories : "arp" \in NamingCategories[i].tokens

EnabledIndex == CHOOSE i \in DOMAIN NamingCategories : "isenabled" \in NamingCategories[i].tokens

ListIndex == CHOOSE i \in DOMAIN NamingCategories : "list" \in NamingCategories[i].tokens

MatchesCategory(i, action, method) ==
    /\ ContainsAny(IF i = EnabledIndex THEN Replace(Lower(action), "_", "")
                   ELSE Lower(action),
                   NamingCategories[i].tokens)
    /\ i = ArrayIndex => method = "GET"

\* the highest-priority naming category the name matches, 0 if it matches none
FirstCategory(action, method) ==
    IF \E i \in DOMAIN NamingCategories : MatchesCategory(i, action, method)
    THEN CHOOSE i \in DOMAIN NamingCategories :
            /\ MatchesCategory(i, action, method)
            /\ \A j \in 1..(i - 1) : ~MatchesCategory(j, action, method)
    ELSE 0

\* the schema of a naming category (the status schema requires status for
\* the names that hold "widget")
CategorySchema(i, action) ==
    IF i = StatusIndex THEN StatusSchema(action) ELSE NamingCategories[i].schema

\* the single object wrapped under key k
Wrapped(c, k) ==
    [type |-> "object", properties |-> Dict1(k, Ref(ModelSchemaName(c)))]

\* the shapes of the model-backed default and of the generic fallback, for
\* a name that matches no naming category
DefaultShaped(c, schema) ==
    IF ModelBound(spec, c)
    THEN \/ schema = Ref(ModelSchemaName(c) \o "Search")
         \/ schema = Ref("StatusResponse")
         \/ schema = None
         \/ schema = Wrapped(c, Lower(CtrlName(c.controller)))
         \/ c.model_name # None /\ schema = Wrapped(c, c.model_name.str)
    ELSE \/ schema = GenericPaginatedSchema
         \/ schema = DynamicObjectSchema("Resource data")
         \/ schema = Ref("StatusResponse")
         \/ schema = None

\* C4 (as stated): for every action name and verb the 200 schema is the one
\* of the highest-priority category the name matches, independent of
\* whether a model is bound and of lower-priority tokens in the name.
C4_FirstMatchWins_AsStated ==
    PathDone =>
        LET i == FirstCategory(PathAction, PathMethod)
        IN  IF i # 0 THEN SchemaOf200(PathOp) = CategorySchema(i, PathAction)
            ELSE DefaultShaped(controllers[1], SchemaOf200(PathOp))

\* C4 (amended): as stated, except that the action named exactly "list"
\* (in any letter case) of a controller with a bound model gets the
\* paginated <Model>Search reference instead of the list-of-entities schema.
C4_FirstMatchWins ==
    PathDone =>
        LET i == FirstCategory(PathAction, PathMethod)
        IN  IF i = ListIndex /\ Lower(PathAction) = "list"
               /\ ModelBound(spec, controllers[1])
            THEN SchemaOf200(PathOp)
                 = Ref(ModelSchemaName(controllers[1]) \o "Search")
            ELSE IF i # 0 THEN SchemaOf200(PathOp) = CategorySchema(i, PathAction)
            ELSE DefaultShaped(controllers[1], SchemaOf200(PathOp))

\* a name of two categories gets the schema of the higher one, with and
\* without a model
C4_Witness_ReconfigureBeatsStatus ==
    /\ PathDone
    /\ PathAction = "reconfigurestatus"
    /\ ModelBound(spec, controllers[1])
    /\ SchemaOf200(PathOp) = ReconfigureSchema

\* C5: with a bound model and a name of no higher-priority category, a
\* name containing search or find gets the <Model>Search reference, a name
\* containing get the single object wrapped under the wrapper key, a name
\* containing add, set, del, toggle or update the StatusResponse reference.
C5_ModelBackedDefault ==
    (/\ PathDone
     /\ ModelBound(spec, controllers[1])
     /\ FirstCategory(PathAction, PathMethod) = 0)
    => LET a == Lower(PathAction)
           c == controllers[1]
           schema == SchemaOf200(PathOp)
       IN  IF ContainsAny(a, {"search", "find"})
           THEN schema = Ref(ModelSchemaName(c) \o "Search")
           ELSE IF Contains(a, "get")
                THEN \/ schema = Wrapped(c, Lower(CtrlName(c.controller)))
                     \/ c.model_name # None /\ schema = Wrapped(c, c.model_name.str)
           ELSE ContainsAny(a, {"add", "set", "del", "toggle", "update"})
                => schema = Ref("StatusResponse")

\* C6: every operation of the written document has a 200 response with an
\* explicit JSON schema.
C6_EveryOperationHasSchema ==
    gen_pc = "done" =>
        \A op \in Operations(spec) :
            /\ "content" \in DOMAIN op.responses["200"]
            /\ "application/json" \in DOMAIN op.responses["200"].content

\* C7: after generate, every endpoint of every input controller has an
\* operation in paths whose operationId is <module>_<controller>_<action>.
C7_EveryEndpointRepresented ==
    gen_pc = "done" =>
        \A i \in DOMAIN controllers :
            \A j \in DOMAIN controllers[i].endpoints :
                \E op \in Operations(spec) :
                    op.operationId =
                        controllers[i].module \o "_"
                        \o CtrlName(controllers[i].controller) \o "_"
                        \o controllers[i].endpoints[j].name

\* the property schema of a field: the items of an array property
ItemSchema(prop) == IF prop.type = "array" THEN prop.items ELSE prop

\* C8: in the schema to_json_schema returns, every property with an enum
\* and a default has its default among the members of its enum list.
C8_DefaultIsEnumMember ==
    (schema_pc = "done" /\ "properties" \in DOMAIN json_schema) =>
        \A n \in DOMAIN json_schema.properties :
            LET prop == ItemSchema(json_schema.properties[n])
            IN  ("enum" \in DOMAIN prop /\ "default" \in DOMAIN prop)
                => \E i \in DOMAIN prop.enum : prop.enum[i] = prop.default

\* C9: _convert_default_value never raises; boolean: true exactly for a
\* lower-cased 1 / y / yes / true; integer and number: the parsed value, or
\* the raw string when it does not parse; string: the raw string.
C9_ConvertNeverRaises ==
    conv_pc = "done" =>
        /\ ~Raised(converted)
        /\ json_type = "boolean" =>
              converted = PyBool(Lower(default_str) \in {"1", "y", "yes", "true"})
        /\ json_type = "integer" =>
              converted = (IF Raised(PyIntOf(default_str)) THEN PyStr(default_str)
                           ELSE PyIntOf(default_str))
        /\ json_type = "number" =>
              converted = (IF Raised(PyFloatOf(default_str)) THEN PyStr(default_str)
                           ELSE PyFloatOf(default_str))
        /\ json_type = "string" => converted = PyStr(default_str)

C9_Witness_InvalidIntegerUnchanged ==
    /\ conv_pc = "done"
    /\ json_type = "integer"
    /\ default_str = "abc"
    /\ converted = PyStr("abc")

\* a 200 schema that wraps a single object: an object whose properties
\* reference the model schema
IsWrapped(schema) ==
    /\ "properties" \in DOMAIN schema
    /\ \E k \in DOMAIN schema.properties : "$ref" \in DOMAIN schema.properties[k]

\* C10: a wrapped get response has exactly one property; its key is the
\* controller's declared override name if it declared one, and otherwise
\* the lower-cased controller identifier without the Controller suffix.
C10_WrapperKey ==
    (PathDone /\ IsWrapped(SchemaOf200(PathOp))) =>
        DOMAIN SchemaOf200(PathOp).properties =
            {IF controllers[1].model_name # None
             THEN controllers[1].model_name.str
             ELSE Lower(CtrlName(controllers[1].controller))}

C10_Witness_OverrideName ==
    /\ PathDone
    /\ PathAction = "get"
    /\ controllers[1].controller = "Alias"
    /\ controllers[1].model_name = PyStr("dnsmasq")
    /\ IsWrapped(SchemaOf200(PathOp))
    /\ DOMAIN SchemaOf200(PathOp).properties = {"dnsmasq"}

---------------------------------------------------------------------------
(* Claims on specs.py *)

SpecsDone == specs_pc = "done"

\* the version a has the major and the minor component of the version req
SameMajorMinor(a, req) ==
    LET pa == Split(a, ".")
        pr == Split(req, ".")
    IN  Len(pa) >= 2 /\ Len(pr) >= 2 /\ pa[1] = pr[1] /\ pa[2] = pr[2]

\* the available versions with the requested major.minor
Candidates == {a \in specs_dir : SameMajorMinor(a, requested)}

\* the version of S that is highest in numeric component order
Highest(S) ==
    CHOOSE a \in S :
        \A b \in S : ~TupleLess(_version_key(a).tuple, _version_key(b).tuple)

\* C11: find_best_matching_spec returns the file of exactly the requested
\* version if it exists; otherwise the file of the available version with
\* the same major.minor that is highest in numeric component order; a
\* returned path always names an existing file of the requested major.minor.
C11_BestMatchIsExactOrHighestPatch ==
    (SpecsDone /\ specs_call = "find_best_matching_spec") =>
        /\ requested \in specs_dir => spec_file = [path |-> SpecFile(requested)]
        /\ (requested \notin specs_dir /\ Candidates # {}) =>
               spec_file = [path |-> SpecFile(Highest(Candidates))]
        /\ ~Raised(spec_file) =>
               \E a \in specs_dir :
                   spec_file.path = SpecFile(a) /\ SameMajorMinor(a, requested)

C11_Witness_TenAboveNine ==
    /\ SpecsDone
    /\ specs_call = "find_best_matching_spec"
    /\ requested = "24.7.999"
    /\ specs_dir = {"24.7.1", "24.7.9", "24.7.10"}
    /\ spec_file = [path |-> "opnsense-24.7.10.json"]

\* C12: every failure of get_spec_path or find_best_matching_spec is a
\* FileNotFoundError whose message names every available version.
C12_FailureListsAvailableVersions ==
    (SpecsDone /\ Raised(spec_file)) =>
        /\ spec_file.raise = "FileNotFoundError"
        /\ \A a \in specs_dir : Contains(spec_file.message, a)

---------------------------------------------------------------------------
(* Claims on APIWrapper *)

WrapperDone(name) ==
    /\ wrapper_pc = "done"
    /\ wrapper_call.name = name

\* the operation the document declares for the path and verb of the call
HasOperation ==
    /\ wrapper_call.path_template \in DOMAIN self_api_spec.paths
    /\ Lower(wrapper_call.method)
          \in DOMAIN self_api_spec.paths[wrapper_call.path_template]

CalledOperation ==
    self_api_spec.paths[wrapper_call.path_template][Lower(wrapper_call.method)]

\* the request schema bound to an operation, None if there is none
BoundRequestSchema(op) ==
    IF "requestBody" \notin DOMAIN op \/ op.requestBody = None THEN None
    ELSE IF "content" \notin DOMAIN op.requestBody THEN None
    ELSE IF "application/json" \notin DOMAIN op.requestBody.content THEN None
    ELSE Get(op.requestBody.content["application/json"], "schema", None)

\* C13: validate_body returns true when the body is absent or the
\* operation has no request schema bound; otherwise it returns whether the
\* body satisfies the reference-resolved request schema, false included.
C13_ValidateBodyResult ==
    (WrapperDone("validate_body") /\ HasOperation) =>
        LET bound == BoundRequestSchema(CalledOperation)
            resolved == _resolve_refs(self_api_spec, bound, 0)
        IN  /\ (wrapper_call.body = None \/ bound = None) =>
                   wrapper_result = PyBool(TRUE)
            /\ (wrapper_call.body # None /\ bound # None /\ ~Raised(resolved)) =>
                   wrapper_result = PyBool(validate(wrapper_call.body, resolved))

\* the triples list_endpoints returned for a path and an upper-cased verb
TriplesFor(path, verb) ==
    {i \in DOMAIN wrapper_result.list :
        wrapper_result.list[i][1] = path /\ wrapper_result.list[i][2] = verb}

\* the first sentence of a description
FirstSentence(text) ==
    IF FirstOf(text, {"."}) = 0 THEN text ELSE SubSeq(text, 1, FirstOf(text, {"."}) - 1)

\* C14: list_endpoints returns exactly one triple for every operation of
\* the document's paths, and no other triple; its summary is the declared
\* summary, or the first sentence of the description.
C14_OneTriplePerOperation ==
    WrapperDone("list_endpoints") =>
        /\ \A path \in DOMAIN self_api_spec.paths :
              \A m \in DOMAIN self_api_spec.paths[path] :
                  LET op == self_api_spec.paths[path][m]
                  IN  /\ Cardinality(TriplesFor(path, Upper(m))) = 1
                      /\ \A i \in TriplesFor(path, Upper(m)) :
                            /\ "summary" \in DOMAIN op =>
                                  wrapper_result.list[i][3] = op.summary
                            /\ ("summary" \notin DOMAIN op /\ "description" \in DOMAIN op) =>
                                  wrapper_result.list[i][3] = FirstSentence(op.description)
        /\ \A i \in DOMAIN wrapper_result.list :
              /\ wrapper_result.list[i][1] \in DOMAIN self_api_spec.paths
              /\ \E m \in DOMAIN self_api_spec.paths[wrapper_result.list[i][1]] :
                    Upper(m) = wrapper_result.list[i][2]

CallEndpoint == wrapper_call # None /\ wrapper_call.name = "call_endpoint"

\* what validate_body answers for the arguments of the call
CallBodyValid ==
    validate_body(self_api_spec, EmptyDict, wrapper_call.path_template,
                  wrapper_call.method, wrapper_call.body)

StepOrder ==
    {<<"validate", "format">>, <<"validate", "raised">>, <<"format", "request">>,
     <<"request", "status">>, <<"request", "raised">>, <<"status", "parse">>,
     <<"status", "raised">>, <<"parse", "done">>}

C15_Steps ==
    CallEndpoint =>
        /\ wrapper_pc' # wrapper_pc => <<wrapper_pc, wrapper_pc'>> \in StepOrder
        /\ http_requests' # http_requests =>
              /\ wrapper_pc = "request"
              /\ http_requests = <<>>
              /\ Len(http_requests') = 1
              /\ http_requests'[1].url =
                    RequestUrl(BaseUrl, base_api_path(self_api_spec),
                               wrapper_call.path_template, wrapper_call.path_params,
                               wrapper_call.query_params)

C15_Results ==
    CallEndpoint =>
        /\ Len(http_requests) <= 1
        /\ CallBodyValid = PyBool(FALSE) =>
              /\ http_requests = <<>>
              /\ wrapper_pc \in {"validate", "raised"}
              /\ wrapper_pc = "raised" =>
                    (Raised(wrapper_result) /\ wrapper_result.raise = "ValueError")
        /\ wrapper_pc = "done" =>
              /\ Len(http_requests) = 1
              /\ is_success(resp)
              /\ wrapper_result =
                    (IF Raised(json_loads(resp.text)) THEN PyStr(resp.text)
                     ELSE json_loads(resp.text))
        /\ (wrapper_pc \in {"parse", "done", "raised"} /\ resp # None
            /\ ~is_success(resp)) =>
              (wrapper_pc = "raised" /\ wrapper_result = HTTPStatusError)

\* C15: call_endpoint validates the body, formats path and query, issues
\* exactly one request and parses, in this order: no request is issued when
\* validation fails (ValueError); a successful request yields the parsed
\* JSON or the raw text; an HTTP error status is raised, never returned.
C15_CallEndpointOrder == []C15_Results /\ [][C15_Steps]_vars

C15_Witness_ValidatedThenRequested ==
    /\ CallEndpoint
    /\ wrapper_pc = "done"
    /\ wrapper_call.body = [alias |-> [enabled |-> PyStr("1")]]
    /\ BoundRequestSchema(CalledOperation) # None
    /\ Len(http_requests) = 1
    /\ http_requests[1].url = "https://opnsense.local/api/api/firewall/alias/set?limit=10"
    /\ wrapper_result = [result |-> PyStr("saved")]

\* C16: _resolve_refs and _build_sample_from_schema return for every
\* document and schema: the recursion never runs until the interpreter
\* stops it.
C16_ResolutionReturns ==
    (wrapper_pc = "done"
     /\ wrapper_call.name \in {"_resolve_refs", "_build_sample_from_schema"}) =>
        wrapper_result # RecursionError

---------------------------------------------------------------------------
(* Claims on the client, the regenerated document, the downloader and the
   guessed verb *)

ClientDone == client_pc = "done"

\* C17: get and post return the parsed JSON body of a successful response,
\* raise APIResponseError carrying the response text when the body of a
\* successful response is not JSON, and raise an error of another kind for
\* an HTTP error status.
C17_NonJsonIsAPIResponseError ==
    ClientDone =>
        LET parsed == json_loads(client_response.text)
        IN  IF ~is_success(client_response)
            THEN /\ Raised(client_result)
                 /\ client_result.raise = "HTTPStatusError"
            ELSE IF Raised(parsed)
            THEN client_result = APIResponseError(client_response.text)
            ELSE client_result = parsed

RegenDone == gen_pc = "done" /\ Len(written) = 2

\* the paths and the component schemas the controllers of a list give
DerivedPaths(list) ==
    {PathUrl(list[i].module, CtrlName(list[i].controller), list[i].endpoints[j].name) :
        <<i, j>> \in {x \in (DOMAIN list) \X (1..MaxEndpoints) :
                        x[2] \in DOMAIN list[x[1]].endpoints}}

DerivedSchemas(list) ==
    UNION {{ModelSchemaName(list[i]), ModelSchemaName(list[i]) \o "Search"} :
            i \in DOMAIN list}

\* C18: after generate(C1) and generate(C2) on one generator the written
\* document holds only paths and component schemas that come from C2, and
\* two calls with the same controllers write the same document.
C18_SecondDocumentFromSecondCall ==
    RegenDone =>
        LET doc == output_files[OutputPath(version)]
        IN  /\ doc = written[2].document
            /\ DOMAIN doc.paths = DerivedPaths(written[2].controllers)
            /\ DOMAIN doc.components.schemas
                  \subseteq (DOMAIN FreshSpec(version).components.schemas
                             \cup DerivedSchemas(written[2].controllers))
            /\ written[1].controllers = written[2].controllers =>
                  written[1].document = written[2].document

C18_Witness_FirstCallNotCarriedOver ==
    /\ RegenDone
    /\ "/api/firewall/alias/get" \in DOMAIN written[1].document.paths
    /\ "OPNsenseFirewallAlias" \in DOMAIN written[1].document.components.schemas
    /\ DOMAIN written[2].document.paths = {"/api/core/service/reconfigure"}
    /\ "OPNsenseFirewallAlias" \notin DOMAIN written[2].document.components.schemas

\* the tags of the version that the repository has
TagsOf(v) == {v, "v" \o v} \cap DOMAIN repository

C19_DownloadStep ==
    (download_pc = "call" /\ download_pc' = "done") =>
        LET v == download_call.version
            cached == v \in DOMAIN cache_dir /\ cache_dir[v].controllers
        IN  /\ (validate_version(v) /\ cached /\ ~download_call.force) =>
                  /\ download_result' = [path |-> ControllersDir(v)]
                  /\ clones' = clones
                  /\ cache_dir' = cache_dir
            /\ (validate_version(v) /\ download_call.force) =>
                  /\ clones' # clones
                  /\ clones'[1] = v
                  /\ v \in DOMAIN cache_dir' => cache_dir'[v].tag \in TagsOf(v)
            /\ (clones' # clones /\ TagsOf(v) = {}) =>
                  /\ clones' = <<v, "v" \o v>>
                  /\ Raised(download_result')
                  /\ download_result'.raise = "RuntimeError"
                  /\ Contains(download_result'.message, v)
            /\ ~Raised(download_result') =>
                  /\ download_result' = [path |-> ControllersDir(v)]
                  /\ v \in DOMAIN cache_dir'
                  /\ cache_dir'[v].controllers

\* C19: a cached version is returned without any clone and with the cache
\* unchanged when force is false; with force the cached tree is removed and
\* the source cloned again; when neither the tag nor the v-prefixed tag can
\* be cloned the call raises RuntimeError; a path is returned only if the
\* controllers directory exists.
C19_CacheForceAndFailure == [][C19_DownloadStep]_vars

C19_Witness_ForcedCloneReplacesCache ==
    /\ download_pc = "done"
    /\ download_call = [version |-> "24.7.1", force |-> TRUE]
    /\ clones = <<"24.7.1">>
    /\ cache_dir["24.7.1"] = Tree(TRUE, "24.7.1")
    /\ download_result = [path |-> ControllersDir("24.7.1")]

GuessDone == guess_pc = "done"

ReadKeywords == {"get", "list", "export", "show", "fetch", "info", "overview",
                 "status"}

WriteKeywords == {"set", "add", "del", "save", "update", "create", "toggle",
                  "reconfigure"}

\* C20 as stated: a name with a read-oriented keyword is GET, a name with a
\* write-oriented keyword is POST, a name with neither is POST.
C20_AsStated ==
    GuessDone =>
        /\ guessed \in {"GET", "POST"}
        /\ ContainsAny(Lower(guess_name), ReadKeywords) => guessed = "GET"
        /\ ContainsAny(Lower(guess_name), WriteKeywords) => guessed = "POST"
        /\ (~ContainsAny(Lower(guess_name), ReadKeywords)
            /\ ~ContainsAny(Lower(guess_name), WriteKeywords)) => guessed = "POST"

\* C20: the guessed verb is GET exactly when the lower-cased name contains a
\* read-oriented keyword, whether or not it also contains a write-oriented
\* one, and POST otherwise; the parameters have no influence.
C20_ReadKeywordsFirst ==
    GuessDone =>
        guessed = (IF ContainsAny(Lower(guess_name), ReadKeywords) THEN "GET"
                   ELSE "POST")

C20_Witness_SetStatusIsGet ==
    /\ GuessDone
    /\ guess_name = "setStatus"
    /\ guess_parameters = <<"uuid">>
    /\ guessed = "GET"

---------------------------------------------------------------------------
(* Claims on merging, tracing and termination of the analyzer *)

\* C30: when every schema handed to _merge_schemas by the returns of a
\* method is the same schema S, the merged schema is S itself, with the
\* same type and the same keywords.
C30_MergeOfIdenticalBranches ==
    (/\ merge_pc = "done"
     /\ Len(schemas) >= 1
     /\ \A i \in DOMAIN schemas : schemas[i] = schemas[1])
    => merged = schemas[1]

InferDone == infer_pc = "done"

C23_Bounded ==
    /\ Len(trace_stack) <= 5
    /\ Len(call_stack) - 1 <= 3
    /\ InferDone => (infer_result = None \/ "type" \in DOMAIN infer_result)

\* C23: infer_response_schema terminates with a schema or None for every
\* method body, cyclic assignment chains and methods calling themselves or
\* each other included: no return is traced through more than 5
\* assignments and no _analyze_returns call runs deeper than 3 calls below
\* the first.
C23_TerminatesWithinBounds == []C23_Bounded /\ <>InferDone

C23_Witness_CycleInMutualRecursion ==
    /\ InferDone
    /\ infer_file.testAction =
          <<Assign(Var("$a"), Var("$b")), Assign(Var("$b"), Var("$a")),
            Return(Var("$a"))>>
    /\ "other" \in DOMAIN infer_file
    /\ Len(trace_stack) = 5
    /\ infer_result = None

\* the place in the body of its n-th return statement
ReturnPosition(body, n) ==
    CHOOSE k \in DOMAIN body :
        /\ body[k].op = "return"
        /\ Cardinality({j \in 1..k : body[j].op = "return"}) = n

\* the places of the assignments to the variable before place k
AssignmentsBefore(body, k, variable) ==
    {j \in 1..(k - 1) : body[j].op = "assign" /\ body[j].lhs = variable}

\* C24: the first assignment a bare returned variable is traced to is the
\* most recent assignment to it that precedes the return statement; with no
\* assignment before the return nothing is traced.
C24_TracedToPrecedingAssignment ==
    (/\ call_stack # <<>>
     /\ Last(call_stack).phase = "base"
     /\ Last(call_stack).original.kind = "var") =>
        LET top == Last(call_stack)
            before == AssignmentsBefore(top.body, ReturnPosition(top.body, top.i),
                                        top.original)
        IN  IF before = {} THEN trace_stack = <<>>
            ELSE /\ trace_stack # <<>>
                 /\ trace_stack[1] =
                       top.body[CHOOSE j \in before : \A h \in before : h <= j].rhs

---------------------------------------------------------------------------
(* Claims on ModelParser's field types *)

KnownTypeNames == DOMAIN FIELD_TYPE_MAP

\* C25: a type token that, with its leading path markers stripped, is no
\* known type name but contains one is recorded with that known type and
\* projected to that type's JSON type; only a token that contains no known
\* type name is projected to string as an unknown type.
C25_ContainedTypeIsRecorded ==
    field_pc = "done" =>
        LET token == LStripChars(element.type, {".", "\\", "/"})
            contained == {ft \in KnownTypeNames : Contains(token, ft)}
        IN  (token \notin KnownTypeNames /\ contained # {}) =>
                /\ parsed_field.field_type \in contained
                /\ field_schema.properties.field.type
                      = FIELD_TYPE_MAP[parsed_field.field_type]

---------------------------------------------------------------------------
(* Claims on the enum of an option field *)

InlineTags ==
    IF option_elem.OptionValues = None THEN <<>> ELSE option_elem.OptionValues.tags

\* the options the Source text refers to: the file in the FieldTypes
\* subdirectory first, then the sibling file; <<>> when there is none
ExternalTags ==
    IF option_elem.Source = "" THEN <<>>
    ELSE _resolve_external_enums(enum_dir, option_elem.Source)

\* C26: the enum of an option field is exactly its inline tag names when
\* it has inline options; the external source gives the enum only when no
\* inline option is present; with neither, the property has no enum and no
\* error is raised.
C26_InlineEnumFirst ==
    enum_pc = "done" =>
        /\ ~Raised(option_prop)
        /\ IF InlineTags # <<>>
           THEN "enum" \in DOMAIN option_prop /\ option_prop.enum = InlineTags
           ELSE IF ExternalTags # <<>>
           THEN "enum" \in DOMAIN option_prop /\ option_prop.enum = ExternalTags
           ELSE "enum" \notin DOMAIN option_prop

---------------------------------------------------------------------------
(* The operation cache of an APIWrapper over a session of calls *)

\* the key the running call looks up: suggest_parameters and
\* _get_operation lower-case the verb they are given
LookupKey == <<wrapper_call.path_template, Lower(wrapper_call.method)>>

\* the lookup of the running call finds an operation in the document
LookupSucceeds ==
    /\ LookupKey[1] \in DOMAIN self_api_spec.paths
    /\ LookupKey[2] \in DOMAIN self_api_spec.paths[LookupKey[1]]

\* every entry is keyed (path, lower-cased verb) and holds the operation
\* of the document at paths[path][verb]
CacheHoldsDocument ==
    \A k \in DOMAIN _operation_cache :
        /\ k[2] = Lower(k[2])
        /\ k[1] \in DOMAIN self_api_spec.paths
        /\ k[2] \in DOMAIN self_api_spec.paths[k[1]]
        /\ _operation_cache[k] = self_api_spec.paths[k[1]][k[2]]

\* a step keeps every entry, adds at most the entry of a lookup that
\* succeeds for a key not yet cached, and adds nothing when the lookup
\* fails
CacheStep ==
    /\ \A k \in DOMAIN _operation_cache :
          k \in DOMAIN _operation_cache' /\ _operation_cache'[k] = _operation_cache[k]
    /\ \A k \in DOMAIN _operation_cache' \ DOMAIN _operation_cache :
          wrapper_pc = "call" /\ k = LookupKey /\ LookupSucceeds
    /\ (wrapper_pc = "call" /\ ~LookupSucceeds) => _operation_cache' = _operation_cache

\* C27: after any sequence of calls on a wrapper every cache entry keyed
\* (path, lower-cased verb) holds the operation at paths[path][verb] of the
\* loaded document; an entry is added only by the first successful lookup
\* of its key, is never removed or replaced, and a failed lookup (KeyError)
\* leaves the cache unchanged.
C27_CacheFollowsDocument == []CacheHoldsDocument /\ [][CacheStep]_vars

\* a lookup failed with KeyError on a wrapper whose cache holds the
\* operations of two earlier lookups
C27_Witness_FailedLookupAfterTwoEntries ==
    /\ wrapper_pc = "done"
    /\ wrapper_call.name \in {"_get_operation", "suggest_parameters"}
    /\ wrapper_result = KeyError
    /\ Cardinality(DOMAIN _operation_cache) = 2

\* the wrapper loaded a document OpenApiGenerator.generate wrote
GeneratedLoaded == self_api_spec \in GeneratedDocs

\* C28: for every operation of a document generate wrote,
\* suggest_parameters and validate_body with a non-null body complete
\* without raising; where the operation has no request body they report
\* body_sample None and the validation result true.
C28_GeneratedDocumentConsumable ==
    /\ (WrapperDone("suggest_parameters") /\ GeneratedLoaded /\ HasOperation) =>
          /\ ~Raised(wrapper_result)
          /\ BoundRequestSchema(CalledOperation) = None =>
                wrapper_result.body_sample = None
    /\ (WrapperDone("validate_body") /\ GeneratedLoaded /\ HasOperation
        /\ wrapper_call.body # None) =>
          /\ ~Raised(wrapper_result)
          /\ BoundRequestSchema(CalledOperation) = None =>
                wrapper_result = PyBool(TRUE)

---------------------------------------------------------------------------
(* The references of a generated document *)

RECURSIVE RefsIn(_)
\* the "$ref" strings in a schema: its own, and those of the schemas under
\* items, properties and additionalProperties
RefsIn(schema) ==
    (IF "$ref" \in DOMAIN schema THEN {schema["$ref"]} ELSE {})
    \cup (IF "items" \in DOMAIN schema THEN RefsIn(schema.items) ELSE {})
    \cup (IF "properties" \in DOMAIN schema
          THEN UNION {RefsIn(schema.properties[p]) : p \in DOMAIN schema.properties}
          ELSE {})
    \cup (IF "additionalProperties" \in DOMAIN schema
             /\ schema.additionalProperties # True
          THEN RefsIn(schema.additionalProperties)
          ELSE {})

\* the "$ref" strings of an operation: request body and 200 response
OperationRefs(op) ==
    (IF BoundRequestSchema(op) # None THEN RefsIn(BoundRequestSchema(op)) ELSE {})
    \cup (IF SchemaOf200(op) # None THEN RefsIn(SchemaOf200(op)) ELSE {})

ComponentPrefix == "#/components/schemas/"

\* a reference names a component schema of the document
RefExists(doc, ref) ==
    /\ StartsWith(ref, ComponentPrefix)
    /\ SubSeq(ref, Len(ComponentPrefix) + 1, Len(ref)) \in DOMAIN doc.components.schemas

\* the component schemas a component schema refers to
RefTargets(doc, name) ==
    {n \in DOMAIN doc.components.schemas :
        ComponentPrefix \o n \in RefsIn(doc.components.schemas[name])}

RECURSIVE ReachedFrom(_, _, _)
\* the component schemas reached from those of a frontier
ReachedFrom(doc, frontier, seen) ==
    LET next == UNION {RefTargets(doc, n) : n \in frontier}
    IN  IF next \subseteq seen THEN seen
        ELSE ReachedFrom(doc, next \ seen, seen \cup next)

RefsResolve(doc) ==
    /\ \A op \in Operations(doc) : \A ref \in OperationRefs(op) : RefExists(doc, ref)
    /\ \A n \in DOMAIN doc.components.schemas :
          \A ref \in RefsIn(doc.components.schemas[n]) : RefExists(doc, ref)

RefsAcyclic(doc) ==
    \A n \in DOMAIN doc.components.schemas : n \notin ReachedFrom(doc, {n}, {})

\* C29: in every document generate produced, every "$ref" of a path
\* operation or component schema names a schema under components.schemas
\* of the same document (StatusResponse always exists), and the reference
\* graph is acyclic.
C29_ReferencesResolveAndAcyclic ==
    \A i \in DOMAIN written :
        /\ "StatusResponse" \in DOMAIN written[i].document.components.schemas
        /\ RefsResolve(written[i].document)
        /\ RefsAcyclic(written[i].document)

\* a document was written whose operation refers to the Search schema of
\* the model, which refers to the model schema
C29_Witness_SearchSchemaReferenced ==
    /\ gen_pc = "done"
    /\ \E op \in Operations(spec) :
          \E n \in DOMAIN spec.components.schemas :
              /\ ComponentPrefix \o n \o "Search" \in OperationRefs(op)
              /\ n \in RefTargets(spec, n \o "Search")

---------------------------------------------------------------------------
(* The crawl of SpecValidator.validate_endpoints *)

\* the path of a request sent
RequestedPath(request) == SubSeq(request.url, Len(BaseUrl) + 1, Len(request.url))

\* the positions of the document whose path the crawl may request
SafeGetPaths ==
    {j \in DOMAIN crawl_paths :
        /\ "get" \in DOMAIN crawl_paths[j][2]
        /\ ~Contains(crawl_paths[j][1], "{")
        /\ LET lowered == Lower(crawl_paths[j][1])
           IN  \A w \in DangerousWords : ~Contains(lowered, w)}

\* every request is a GET of a path at one of the positions safe
CrawlRequestsSafe(safe) ==
    \A i \in DOMAIN crawl_requests :
        /\ crawl_requests[i].method = "GET"
        /\ \E j \in safe : crawl_paths[j][1] = RequestedPath(crawl_requests[i])

CrawlResultsMatch ==
    /\ Len(crawl_requests) <= max_endpoints
    /\ Len(crawl_results) = Len(crawl_requests)
    /\ \A i \in DOMAIN crawl_results :
          LET response == crawl_requests[i].response
              result == crawl_results[i]
          IN  /\ result.path = RequestedPath(crawl_requests[i])
              /\ result.method = "GET"
              /\ result.valid =>
                    /\ ~Raised(response)
                    /\ response.status_code = 200
                    /\ result.status = 200
              /\ Raised(response) =>
                    ~result.valid /\ result.error = PyStr(response.message)
              /\ (~Raised(response) /\ response.status_code # 200) =>
                    ~result.valid /\ result.error # None

\* the crawl ends only at the limit or behind the last path, whatever the
\* requests before met
CrawlContinues(safe) ==
    /\ crawl_pc \in {"idle", "loop", "done"}
    /\ crawl_pc = "done" =>
          \/ Len(crawl_requests) = max_endpoints
          \/ Len(crawl_requests) = Cardinality(safe)

\* C22: validate_endpoints only issues GET requests, only to paths that
\* declare a get operation, contain no "{" and none of the words reboot,
\* poweroff, halt, delete, destroy; it issues at most max_endpoints
\* requests and yields one result per request; a result is valid only if
\* the response status was 200; an error on one endpoint is recorded in
\* that endpoint's result and the crawl goes on with the next endpoint.
C22_CrawlIsSafeAndComplete ==
    LET safe == SafeGetPaths
    IN  CrawlRequestsSafe(safe) /\ CrawlResultsMatch /\ CrawlContinues(safe)

\* the crawl ended after two requests, the first of which failed to
\* connect and the second of which was answered 200 and found valid,
\* on a document that also holds a path that is not requested
C22_Witness_ErrorThenValid ==
    /\ crawl_pc = "done"
    /\ Len(crawl_requests) = 2
    /\ Raised(crawl_requests[1].response)
    /\ crawl_results[1].error = PyStr(CrawlConnectError.message)
    /\ crawl_results[2].valid
    /\ Cardinality(SafeGetPaths) < Len(crawl_paths)

---------------------------------------------------------------------------
(* The exit codes of the commands download and generate *)

CliExited == cli_pc = "exit"

DownloadSucceeded == controllers_path # None /\ ~Raised(controllers_path)

\* C21: download and generate exit with code 0 whenever the source
\* download succeeds and (for generate) the controllers are parsed and the
\* specification is generated, and with a non-zero code whenever the
\* download or the generation fails; generate still succeeds when the
\* models directory is absent.
C21_ExitCodes ==
    CliExited =>
        /\ cli_command = "download" => (exit_code = 0 <=> DownloadSucceeded)
        /\ cli_command = "generate" =>
              /\ (DownloadSucceeded /\ output_file # None) => exit_code = 0
              /\ (~DownloadSucceeded \/ output_file = None) => exit_code # 0
              /\ (DownloadSucceeded /\ cli_models_dir = None) =>
                    exit_code = 0 /\ output_file # None

=============================================================================
